---- MODULE Spec2Model ----
(***************************************************************************)
(* The in-memory cache backends (LRU, LFU, FIFO) of semanticcache and the  *)
(* similarity scan of SemanticCache that runs on top of them.              *)
(*                                                                         *)
(* One backend instance is modelled.  Every critical section of a backend  *)
(* method (the code between Lock/RLock and the matching Unlock) is one     *)
(* atomic action; a method with two critical sections (LRU GetEmbedding)   *)
(* is two actions of the calling goroutine.                                *)
(***************************************************************************)
EXTENDS Integers, Sequences, FiniteSets, TLC

\* ---------------------------------------------------------------- bounds
NumKeys == 3
MaxCapacity == 2
NumTexts == 2
NumVals == 2
MaxFreq == 3
NumProcs == 1
MaxTextTokens == 3
MaxInputTokens == 6
MaxChunkSize == 4
MaxBatch == 3

\* ------------------------------------------------------------- constants
\* minFreq := int(^uint(0) >> 1): the largest int.  The model checker's
\* integers are 32 bits wide, so the largest of those stands for it; every
\* frequency of the model is at most MaxFreq.
MaxInt == 2147483647

Keys == 1..NumKeys
Texts == 1..NumTexts
Vals == 1..NumVals
Procs == 1..NumProcs
Kinds == {"lru", "lfu", "fifo"}

\* "no key": the zero value of K, which SemanticCache.Set rejects
ZeroKey == 0

\* the (nil, false) / (Entry{}, false) result of a read that misses
NotFound == [found |-> FALSE]

VARIABLES
    kind,       \* which backend implementation this instance is
    capacity,   \* config.Capacity
    entries,    \* the value store: FIFO/LFU entries map, LRU cache items
    index,      \* the embedding index  map[K][]float
    queue,      \* FIFOBackend.queue (oldest first)
    evictList,  \* recency list of the LRU cache (most recent first)
    Frequency,  \* LFUEntry.Frequency per stored key
    cleanup,    \* per goroutine: the key whose stale index entry an LRU
                \* GetEmbedding is about to delete (ZeroKey when none)
    ret,        \* what the last call completed by the observed caller
                \* returned
    scan,       \* the goroutine running SemanticCache.Lookup: its position
                \* and its local variables
    used,       \* history: the stored keys of an LRU backend, ordered by
                \* their most recent Get or Set (most recent last)
    inserted,   \* history: the stored keys of a FIFO backend, ordered by
                \* their insertion since they were last absent
    evicted,    \* history: the keys the last call removed to make room
    shouldErr,  \* mockBackend.shouldErr: the test backend fails every call
    batchProvider,  \* whether sc.provider is a BatchEmbeddingProvider
    enableChunking, \* SemanticCache.enableChunking
    config,     \* FixedOverlapChunker.config
    embedded,   \* history: the provider calls made by the call in progress
                \* (or by the last call when none is)
    batch,      \* the goroutine running SemanticCache.SetBatch: its position
                \* and its local variables
    async,      \* the asynchronous operation in flight: its goroutines and
                \* its channels
    ctx,        \* the context.Context the caller passes: "live" or
                \* "cancelled"
    closed,     \* the components whose Close has been invoked
    single      \* the single-struct cache (NewSemanticCache): who holds
                \* sc.mu and where each of its callers is

bvars == <<kind, capacity, entries, index, queue, evictList, Frequency>>
hvars == <<used, inserted, evicted>>
svars == <<shouldErr, batchProvider, enableChunking, config, embedded, batch, async,
          ctx, closed, single>>
vars == <<kind, capacity, entries, index, queue, evictList, Frequency,
          cleanup, ret, scan, used, inserted, evicted,
          shouldErr, batchProvider, enableChunking, config, embedded, batch,
          async, ctx, closed, single>>

\* ------------------------------------------------------ provider, kernel
\* A float is a fixed-point number: Unit stands for 1.0, so that the mean of
\* up to MaxTextTokens embeddings is exact.
RECURSIVE Factorial(_)
Factorial(n) == IF n <= 1 THEN 1 ELSE n * Factorial(n - 1)

Unit == Factorial(MaxTextTokens)

\* EmbedText: a deterministic provider producing 2-dimensional vectors
EmbedText(text) == <<text * Unit, Unit>>

Vectors == {EmbedText(t) : t \in Texts}

Entry == [Embedding : Vectors, Value : Vals]

RECURSIVE dotSum(_, _, _)
dotSum(a, b, i) ==
    IF i > Len(a) THEN 0 ELSE a[i] * b[i] + dotSum(a, b, i + 1)

DotProductSimilarity(a, b) ==
    IF Len(a) # Len(b) \/ Len(a) = 0 THEN 0 ELSE dotSum(a, b, 1)

\* ------------------------------------------------------------ Go maps
EmptyMap == [x \in {} |-> 0]

MapPut(m, k, v) == [x \in (DOMAIN m) \cup {k} |-> IF x = k THEN v ELSE m[x]]

MapDelete(m, k) == [x \in (DOMAIN m) \ {k} |-> m[x]]

\* every order in which `range` may visit the keys of a map
RangeOrders(S) ==
    {s \in [1..Cardinality(S) -> S] : \A i, j \in DOMAIN s : i # j => s[i] # s[j]}

\* ------------------------------------------------------------ sequences
Without(s, k) == LET keep(x) == x # k IN SelectSeq(s, keep)

SeqSet(s) == {s[i] : i \in DOMAIN s}

\* ============================================================ LRU backend
\* lru.Cache.Add: an existing key is refreshed and moved to the front; a new
\* key is pushed to the front and the oldest entry is removed on overflow.
lruAdd(key, entry) ==
    IF key \in DOMAIN entries
    THEN [evictList |-> <<key>> \o Without(evictList, key),
          entries   |-> MapPut(entries, key, entry)]
    ELSE LET list  == <<key>> \o evictList
             items == MapPut(entries, key, entry)
         IN  IF Len(list) > capacity
             THEN [evictList |-> SubSeq(list, 1, Len(list) - 1),
                   entries   |-> MapDelete(items, list[Len(list)])]
             ELSE [evictList |-> list, entries |-> items]

\* lru.Cache.Get: a hit moves the key to the front
lruGet(key) ==
    IF key \in DOMAIN entries THEN <<key>> \o Without(evictList, key)
    ELSE evictList

\* lru.Cache.Contains: no recency update
lruContains(key) == key \in DOMAIN entries

\* a Set that writes the index only for keys the index does not hold yet
LRUBackendSetKeepIndex(key, entry) ==
    /\ kind = "lru"
    /\ entries' = lruAdd(key, entry).entries
    /\ evictList' = lruAdd(key, entry).evictList
    /\ index' = IF key \in DOMAIN index THEN index
                ELSE MapPut(index, key, entry.Embedding)
    /\ UNCHANGED <<kind, capacity, queue, Frequency>>

LRUBackendSet(key, entry) ==
    /\ kind = "lru"
    /\ entries' = lruAdd(key, entry).entries
    /\ evictList' = lruAdd(key, entry).evictList
    /\ index' = MapPut(index, key, entry.Embedding)
    /\ UNCHANGED <<kind, capacity, queue, Frequency>>

LRUBackendGetResult(key) ==
    IF key \in DOMAIN entries
    THEN [found |-> TRUE, entry |-> entries[key]]
    ELSE NotFound

LRUBackendGet(key) ==
    /\ kind = "lru"
    /\ evictList' = lruGet(key)
    /\ UNCHANGED <<kind, capacity, entries, index, queue, Frequency>>

LRUBackendDelete(key) ==
    /\ kind = "lru"
    /\ entries' = MapDelete(entries, key)
    /\ evictList' = Without(evictList, key)
    /\ index' = MapDelete(index, key)
    /\ UNCHANGED <<kind, capacity, queue, Frequency>>

\* mutant: Contains implemented with cache.Get, which refreshes recency
LRUBackendContainsTouching(key) ==
    /\ kind = "lru"
    /\ evictList' = lruGet(key)
    /\ UNCHANGED <<kind, capacity, entries, index, queue, Frequency>>

LRUBackendContains(key) ==
    /\ kind = "lru"
    /\ evictList' = evictList
    /\ UNCHANGED <<kind, capacity, entries, index, queue, Frequency>>

LRUBackendContainsResult(key) == lruContains(key)

LRUBackendFlush ==
    /\ kind = "lru"
    /\ entries' = EmptyMap
    /\ evictList' = <<>>
    /\ index' = EmptyMap
    /\ UNCHANGED <<kind, capacity, queue, Frequency>>

LRUBackendLenResult == Len(evictList)

\* Keys keeps the index entries whose key the cache still holds
LRUBackendKeysResult == {key \in DOMAIN index : lruContains(key)}

LRUBackendKeys ==
    /\ kind = "lru"
    /\ index' = [key \in LRUBackendKeysResult |-> index[key]]
    /\ UNCHANGED <<kind, capacity, entries, queue, evictList, Frequency>>

\* mutant: GetEmbedding serves the index without asking the cache
LRUBackendGetEmbeddingResultIndexOnly(key) ==
    IF key \in DOMAIN index
    THEN [found |-> TRUE, embedding |-> index[key]]
    ELSE NotFound

\* GetEmbedding, first critical section (RLock): read index and cache
LRUBackendGetEmbeddingResult(key) ==
    LET hasEmbedding == key \in DOMAIN index
        cacheHasKey  == lruContains(key)
    IN  IF hasEmbedding /\ cacheHasKey
        THEN [found |-> TRUE, embedding |-> index[key]]
        ELSE NotFound

\* the caller goes on to the second critical section
LRUBackendGetEmbeddingStale(key) ==
    LET hasEmbedding == key \in DOMAIN index
        cacheHasKey  == lruContains(key)
    IN  hasEmbedding /\ ~cacheHasKey

\* GetEmbedding, second critical section (Lock): delete(b.index, key)
LRUBackendGetEmbeddingCleanup(key) ==
    /\ kind = "lru"
    /\ index' = MapDelete(index, key)
    /\ UNCHANGED <<kind, capacity, entries, queue, evictList, Frequency>>

\* =========================================================== FIFO backend
\* mutant: the capacity test is > instead of >=
FIFOBackendSetOffByOne(key, entry) ==
    /\ kind = "fifo"
    /\ IF key \in DOMAIN entries
       THEN /\ entries' = MapPut(entries, key, entry)
            /\ index' = MapPut(index, key, entry.Embedding)
            /\ UNCHANGED queue
       ELSE IF Cardinality(DOMAIN entries) > capacity /\ capacity > 0
            THEN LET oldestKey == queue[1]
                 IN  /\ entries' = MapPut(MapDelete(entries, oldestKey), key, entry)
                     /\ index' = MapPut(MapDelete(index, oldestKey), key,
                                        entry.Embedding)
                     /\ queue' = Append(Tail(queue), key)
            ELSE /\ entries' = MapPut(entries, key, entry)
                 /\ index' = MapPut(index, key, entry.Embedding)
                 /\ queue' = Append(queue, key)
    /\ UNCHANGED <<kind, capacity, evictList, Frequency>>

\* mutant: a Set of a stored key moves the key to the back of the queue
FIFOBackendSetReorder(key, entry) ==
    /\ kind = "fifo"
    /\ IF key \in DOMAIN entries
       THEN /\ entries' = MapPut(entries, key, entry)
            /\ index' = MapPut(index, key, entry.Embedding)
            /\ queue' = Append(Without(queue, key), key)
       ELSE IF Cardinality(DOMAIN entries) >= capacity /\ capacity > 0
            THEN LET oldestKey == queue[1]
                 IN  /\ entries' = MapPut(MapDelete(entries, oldestKey), key, entry)
                     /\ index' = MapPut(MapDelete(index, oldestKey), key,
                                        entry.Embedding)
                     /\ queue' = Append(Tail(queue), key)
            ELSE /\ entries' = MapPut(entries, key, entry)
                 /\ index' = MapPut(index, key, entry.Embedding)
                 /\ queue' = Append(queue, key)
    /\ UNCHANGED <<kind, capacity, evictList, Frequency>>

FIFOBackendSet(key, entry) ==
    /\ kind = "fifo"
    /\ IF key \in DOMAIN entries
       THEN /\ entries' = MapPut(entries, key, entry)
            /\ index' = MapPut(index, key, entry.Embedding)
            /\ UNCHANGED queue
       ELSE IF Cardinality(DOMAIN entries) >= capacity /\ capacity > 0
            THEN LET oldestKey == queue[1]
                 IN  /\ entries' = MapPut(MapDelete(entries, oldestKey), key, entry)
                     /\ index' = MapPut(MapDelete(index, oldestKey), key,
                                        entry.Embedding)
                     /\ queue' = Append(Tail(queue), key)
            ELSE /\ entries' = MapPut(entries, key, entry)
                 /\ index' = MapPut(index, key, entry.Embedding)
                 /\ queue' = Append(queue, key)
    /\ UNCHANGED <<kind, capacity, evictList, Frequency>>

FIFOBackendGetResult(key) ==
    IF key \in DOMAIN entries
    THEN [found |-> TRUE, entry |-> entries[key]]
    ELSE NotFound

FIFOBackendGet(key) ==
    /\ kind = "fifo"
    /\ UNCHANGED bvars

\* mutant: Delete drops the head of the queue instead of the deleted key
FIFOBackendDeleteDropsHead(key) ==
    /\ kind = "fifo"
    /\ IF key \notin DOMAIN entries
       THEN UNCHANGED <<entries, index, queue>>
       ELSE /\ entries' = MapDelete(entries, key)
            /\ index' = MapDelete(index, key)
            /\ queue' = Tail(queue)
    /\ UNCHANGED <<kind, capacity, evictList, Frequency>>

\* mutant: Delete leaves the key in the queue
FIFOBackendDeleteKeepsQueue(key) ==
    /\ kind = "fifo"
    /\ IF key \notin DOMAIN entries
       THEN UNCHANGED <<entries, index, queue>>
       ELSE /\ entries' = MapDelete(entries, key)
            /\ index' = MapDelete(index, key)
            /\ queue' = queue
    /\ UNCHANGED <<kind, capacity, evictList, Frequency>>

FIFOBackendDelete(key) ==
    /\ kind = "fifo"
    /\ IF key \notin DOMAIN entries
       THEN UNCHANGED <<entries, index, queue>>
       ELSE /\ entries' = MapDelete(entries, key)
            /\ index' = MapDelete(index, key)
            /\ queue' = Without(queue, key)
    /\ UNCHANGED <<kind, capacity, evictList, Frequency>>

FIFOBackendContainsResult(key) == key \in DOMAIN entries

\* mutant: Flush keeps the queue
FIFOBackendFlushKeepsQueue ==
    /\ kind = "fifo"
    /\ entries' = EmptyMap
    /\ index' = EmptyMap
    /\ queue' = queue
    /\ UNCHANGED <<kind, capacity, evictList, Frequency>>

FIFOBackendFlush ==
    /\ kind = "fifo"
    /\ entries' = EmptyMap
    /\ index' = EmptyMap
    /\ queue' = <<>>
    /\ UNCHANGED <<kind, capacity, evictList, Frequency>>

FIFOBackendLenResult == Cardinality(DOMAIN entries)

FIFOBackendKeysResult == DOMAIN index

FIFOBackendGetEmbeddingResult(key) ==
    IF key \in DOMAIN index
    THEN [found |-> TRUE, embedding |-> index[key]]
    ELSE NotFound

\* ============================================================ LFU backend
\* the scan of evictLFU over the entries in the order `range` visits them
RECURSIVE evictLFUScan(_, _, _, _)
evictLFUScan(order, i, minFreq, lfuKey) ==
    IF i > Len(order) THEN lfuKey
    ELSE IF Frequency[order[i]] < minFreq
         THEN evictLFUScan(order, i + 1, Frequency[order[i]], order[i])
         ELSE evictLFUScan(order, i + 1, minFreq, lfuKey)

\* mutant: the scan forgets to lower minFreq when it finds a smaller one
RECURSIVE evictLFUScanNoUpdate(_, _, _, _)
evictLFUScanNoUpdate(order, i, minFreq, lfuKey) ==
    IF i > Len(order) THEN lfuKey
    ELSE IF Frequency[order[i]] < minFreq
         THEN evictLFUScanNoUpdate(order, i + 1, minFreq, order[i])
         ELSE evictLFUScanNoUpdate(order, i + 1, minFreq, lfuKey)

evictLFUNoUpdate(order) == evictLFUScanNoUpdate(order, 1, MaxInt, ZeroKey)

evictLFU(order) == evictLFUScan(order, 1, MaxInt, ZeroKey)

LFUBackendSet(key, entry) ==
    /\ kind = "lfu"
    /\ IF key \in DOMAIN entries
       THEN /\ Frequency[key] < MaxFreq
            /\ entries' = MapPut(entries, key, entry)
            /\ Frequency' = [Frequency EXCEPT ![key] = @ + 1]
            /\ index' = MapPut(index, key, entry.Embedding)
       ELSE IF Cardinality(DOMAIN entries) >= capacity /\ capacity > 0
            THEN \E order \in RangeOrders(DOMAIN entries) :
                   LET lfuKey == evictLFU(order)
                   IN  /\ entries' = MapPut(MapDelete(entries, lfuKey), key, entry)
                       /\ Frequency' = MapPut(MapDelete(Frequency, lfuKey), key, 1)
                       /\ index' = MapPut(MapDelete(index, lfuKey), key,
                                          entry.Embedding)
            ELSE /\ entries' = MapPut(entries, key, entry)
                 /\ Frequency' = MapPut(Frequency, key, 1)
                 /\ index' = MapPut(index, key, entry.Embedding)
    /\ UNCHANGED <<kind, capacity, queue, evictList>>

LFUBackendGetResult(key) ==
    IF key \in DOMAIN entries
    THEN [found |-> TRUE, entry |-> entries[key]]
    ELSE NotFound

LFUBackendGet(key) ==
    /\ kind = "lfu"
    /\ IF key \in DOMAIN entries
       THEN /\ Frequency[key] < MaxFreq
            /\ Frequency' = [Frequency EXCEPT ![key] = @ + 1]
       ELSE UNCHANGED Frequency
    /\ UNCHANGED <<kind, capacity, entries, index, queue, evictList>>

LFUBackendDelete(key) ==
    /\ kind = "lfu"
    /\ entries' = MapDelete(entries, key)
    /\ Frequency' = MapDelete(Frequency, key)
    /\ index' = MapDelete(index, key)
    /\ UNCHANGED <<kind, capacity, queue, evictList>>

\* mutant: Contains counts as a use
LFUBackendContainsCounting(key) ==
    /\ kind = "lfu"
    /\ IF key \in DOMAIN entries
       THEN /\ Frequency[key] < MaxFreq
            /\ Frequency' = [Frequency EXCEPT ![key] = @ + 1]
       ELSE UNCHANGED Frequency
    /\ UNCHANGED <<kind, capacity, entries, index, queue, evictList>>

LFUBackendContains(key) ==
    /\ kind = "lfu"
    /\ Frequency' = Frequency
    /\ UNCHANGED <<kind, capacity, entries, index, queue, evictList>>

LFUBackendContainsResult(key) == key \in DOMAIN entries

LFUBackendFlush ==
    /\ kind = "lfu"
    /\ entries' = EmptyMap
    /\ Frequency' = EmptyMap
    /\ index' = EmptyMap
    /\ UNCHANGED <<kind, capacity, queue, evictList>>

LFUBackendLenResult == Cardinality(DOMAIN entries)

LFUBackendKeysResult == DOMAIN index

LFUBackendGetEmbeddingResult(key) ==
    IF key \in DOMAIN index
    THEN [found |-> TRUE, embedding |-> index[key]]
    ELSE NotFound

\* ===================================================== the backend in use
\* what each read of the CacheBackend interface returns in the current state
GetResult(key) ==
    CASE kind = "lru"  -> LRUBackendGetResult(key)
      [] kind = "lfu"  -> LFUBackendGetResult(key)
      [] kind = "fifo" -> FIFOBackendGetResult(key)

ContainsResult(key) ==
    CASE kind = "lru"  -> LRUBackendContainsResult(key)
      [] kind = "lfu"  -> LFUBackendContainsResult(key)
      [] kind = "fifo" -> FIFOBackendContainsResult(key)

LenResult ==
    CASE kind = "lru"  -> LRUBackendLenResult
      [] kind = "lfu"  -> LFUBackendLenResult
      [] kind = "fifo" -> FIFOBackendLenResult

KeysResult ==
    CASE kind = "lru"  -> LRUBackendKeysResult
      [] kind = "lfu"  -> LFUBackendKeysResult
      [] kind = "fifo" -> FIFOBackendKeysResult

GetEmbeddingResult(key) ==
    CASE kind = "lru"  -> LRUBackendGetEmbeddingResult(key)
      [] kind = "lfu"  -> LFUBackendGetEmbeddingResult(key)
      [] kind = "fifo" -> FIFOBackendGetEmbeddingResult(key)

\* ------------------------------------------------------------- histories
\* move key to the end of a history (most recent last)
Touch(h, key) == Append(Without(h, key), key)

\* a history keeps the keys that are stored
Stored(h, S) == LET keep(x) == x \in S IN SelectSeq(h, keep)

Returned(op, key, out) == ret' = [op |-> op, key |-> key, out |-> out]

\* the keys a step takes out of the value store
Removed == (DOMAIN entries) \ (DOMAIN entries')

\* ============================================ calls made on the backend
\* Calls whose body is one critical section are made by any goroutine.
LRUSet(key, entry) ==
    /\ LRUBackendSet(key, entry)
    /\ Returned("Set", key, "nil")
    /\ evicted' = Removed
    /\ UNCHANGED <<scan, svars>>
    /\ used' = Stored(Touch(used, key), DOMAIN entries')
    /\ UNCHANGED <<cleanup, inserted>>

LRUGet(key) ==
    /\ LRUBackendGet(key)
    /\ Returned("Get", key, LRUBackendGetResult(key))
    /\ evicted' = {}
    /\ UNCHANGED <<scan, svars>>
    /\ used' = IF LRUBackendGetResult(key).found THEN Touch(used, key) ELSE used
    /\ UNCHANGED <<cleanup, inserted>>

LRUDelete(key) ==
    /\ LRUBackendDelete(key)
    /\ Returned("Delete", key, "nil")
    /\ evicted' = {}
    /\ UNCHANGED <<scan, svars>>
    /\ used' = Without(used, key)
    /\ UNCHANGED <<cleanup, inserted>>

LRUContains(key) ==
    /\ LRUBackendContains(key)
    /\ Returned("Contains", key, LRUBackendContainsResult(key))
    /\ evicted' = {}
    /\ UNCHANGED <<scan, svars>>
    /\ UNCHANGED <<cleanup, used, inserted>>

LRUFlush ==
    /\ LRUBackendFlush
    /\ Returned("Flush", ZeroKey, "nil")
    /\ evicted' = {}
    /\ UNCHANGED <<scan, svars>>
    /\ used' = <<>>
    /\ UNCHANGED <<cleanup, inserted>>

LRULen ==
    /\ kind = "lru"
    /\ Returned("Len", ZeroKey, LRUBackendLenResult)
    /\ evicted' = {}
    /\ UNCHANGED <<scan, svars>>
    /\ UNCHANGED <<bvars, cleanup, used, inserted>>

LRUKeys ==
    /\ LRUBackendKeys
    /\ Returned("Keys", ZeroKey, LRUBackendKeysResult)
    /\ evicted' = {}
    /\ UNCHANGED <<scan, svars>>
    /\ UNCHANGED <<cleanup, used, inserted>>

\* GetEmbedding of goroutine p: the read; a stale index entry sends the
\* goroutine to the second critical section before it returns
LRUGetEmbedding(p, key) ==
    /\ kind = "lru"
    /\ cleanup[p] = ZeroKey
    /\ IF LRUBackendGetEmbeddingStale(key)
       THEN /\ cleanup' = [cleanup EXCEPT ![p] = key]
            /\ UNCHANGED <<ret, evicted>>
       ELSE /\ Returned("GetEmbedding", key, LRUBackendGetEmbeddingResult(key))
            /\ evicted' = {}
            /\ UNCHANGED cleanup
    /\ UNCHANGED <<bvars, scan, used, inserted, svars>>

LRUGetEmbeddingCleanup(p) ==
    /\ cleanup[p] # ZeroKey
    /\ LRUBackendGetEmbeddingCleanup(cleanup[p])
    /\ Returned("GetEmbedding", cleanup[p], NotFound)
    /\ evicted' = {}
    /\ UNCHANGED <<scan, svars>>
    /\ cleanup' = [cleanup EXCEPT ![p] = ZeroKey]
    /\ UNCHANGED <<used, inserted>>

FIFOSet(key, entry) ==
    /\ FIFOBackendSet(key, entry)
    /\ Returned("Set", key, "nil")
    /\ evicted' = Removed
    /\ UNCHANGED <<scan, svars>>
    /\ inserted' = IF key \in DOMAIN entries THEN inserted
                   ELSE Stored(Touch(inserted, key), DOMAIN entries')
    /\ UNCHANGED <<cleanup, used>>

FIFOGet(key) ==
    /\ FIFOBackendGet(key)
    /\ Returned("Get", key, FIFOBackendGetResult(key))
    /\ evicted' = {}
    /\ UNCHANGED <<scan, svars>>
    /\ UNCHANGED <<cleanup, used, inserted>>

FIFODelete(key) ==
    /\ FIFOBackendDelete(key)
    /\ Returned("Delete", key, "nil")
    /\ evicted' = {}
    /\ UNCHANGED <<scan, svars>>
    /\ inserted' = Without(inserted, key)
    /\ UNCHANGED <<cleanup, used>>

FIFOContains(key) ==
    /\ kind = "fifo"
    /\ Returned("Contains", key, FIFOBackendContainsResult(key))
    /\ evicted' = {}
    /\ UNCHANGED <<scan, svars>>
    /\ UNCHANGED <<bvars, cleanup, used, inserted>>

FIFOFlush ==
    /\ FIFOBackendFlush
    /\ Returned("Flush", ZeroKey, "nil")
    /\ evicted' = {}
    /\ UNCHANGED <<scan, svars>>
    /\ inserted' = <<>>
    /\ UNCHANGED <<cleanup, used>>

FIFOLen ==
    /\ kind = "fifo"
    /\ Returned("Len", ZeroKey, FIFOBackendLenResult)
    /\ evicted' = {}
    /\ UNCHANGED <<scan, svars>>
    /\ UNCHANGED <<bvars, cleanup, used, inserted>>

FIFOKeys ==
    /\ kind = "fifo"
    /\ Returned("Keys", ZeroKey, FIFOBackendKeysResult)
    /\ evicted' = {}
    /\ UNCHANGED <<scan, svars>>
    /\ UNCHANGED <<bvars, cleanup, used, inserted>>

FIFOGetEmbedding(key) ==
    /\ kind = "fifo"
    /\ Returned("GetEmbedding", key, FIFOBackendGetEmbeddingResult(key))
    /\ evicted' = {}
    /\ UNCHANGED <<scan, svars>>
    /\ UNCHANGED <<bvars, cleanup, used, inserted>>

LFUSet(key, entry) ==
    /\ LFUBackendSet(key, entry)
    /\ Returned("Set", key, "nil")
    /\ evicted' = Removed
    /\ UNCHANGED <<scan, svars>>
    /\ UNCHANGED <<cleanup, used, inserted>>

LFUGet(key) ==
    /\ LFUBackendGet(key)
    /\ Returned("Get", key, LFUBackendGetResult(key))
    /\ evicted' = {}
    /\ UNCHANGED <<scan, svars>>
    /\ UNCHANGED <<cleanup, used, inserted>>

LFUDelete(key) ==
    /\ LFUBackendDelete(key)
    /\ Returned("Delete", key, "nil")
    /\ evicted' = {}
    /\ UNCHANGED <<scan, svars>>
    /\ UNCHANGED <<cleanup, used, inserted>>

LFUContains(key) ==
    /\ LFUBackendContains(key)
    /\ Returned("Contains", key, LFUBackendContainsResult(key))
    /\ evicted' = {}
    /\ UNCHANGED <<scan, svars>>
    /\ UNCHANGED <<cleanup, used, inserted>>

LFUFlush ==
    /\ LFUBackendFlush
    /\ Returned("Flush", ZeroKey, "nil")
    /\ evicted' = {}
    /\ UNCHANGED <<scan, svars>>
    /\ UNCHANGED <<cleanup, used, inserted>>

LFULen ==
    /\ kind = "lfu"
    /\ Returned("Len", ZeroKey, LFUBackendLenResult)
    /\ evicted' = {}
    /\ UNCHANGED <<scan, svars>>
    /\ UNCHANGED <<bvars, cleanup, used, inserted>>

LFUKeys ==
    /\ kind = "lfu"
    /\ Returned("Keys", ZeroKey, LFUBackendKeysResult)
    /\ evicted' = {}
    /\ UNCHANGED <<scan, svars>>
    /\ UNCHANGED <<bvars, cleanup, used, inserted>>

LFUGetEmbedding(key) ==
    /\ kind = "lfu"
    /\ Returned("GetEmbedding", key, LFUBackendGetEmbeddingResult(key))
    /\ evicted' = {}
    /\ UNCHANGED <<scan, svars>>
    /\ UNCHANGED <<bvars, cleanup, used, inserted>>

\* ========================================================= specification
\* Lookup has not been called
ScanIdle ==
    [pc |-> "idle", embedding |-> <<>>, threshold |-> 0, keys |-> <<>>,
     i |-> 0, emb |-> <<>>, score |-> 0, bestMatch |-> NotFound,
     bestScore |-> 0, split |-> FALSE, modified |-> FALSE,
     n |-> 0, matches |-> <<>>]

\* a capacity-bounded backend of any of the three kinds, just constructed
\* chunker.DefaultChunkConfig
DefaultChunkConfig ==
    [MaxTokens |-> 8191, ChunkSize |-> 512, ChunkOverlap |-> 50]

\* no SetBatch is running
BatchIdle ==
    [pc |-> "idle", items |-> <<>>, i |-> 0, err |-> "nil", log |-> <<>>]

\* make(chan T, cap): buf holds the values sent and not yet received, sends
\* counts the values ever sent
makeChan(cap) == [buf |-> <<>>, cap |-> cap, closed |-> FALSE, sends |-> 0]

\* a channel that has not been made
NoChan == makeChan(0)

\* the single-struct cache: sc.mu is free and no call is in progress
SingleIdle ==
    [mu |-> 0, pc |-> [p \in Procs |-> "idle"],
     op |-> [p \in Procs |-> "none"], key |-> [p \in Procs |-> ZeroKey],
     entry |-> [p \in Procs |-> NotFound],
     victim |-> [p \in Procs |-> ZeroKey]]

\* no asynchronous operation has been started
AsyncIdle ==
    [op |-> "none", items |-> <<>>, query |-> <<>>, main |-> "none",
     worker |-> <<>>, backend |-> <<>>, errCh |-> NoChan,
     resultCh |-> NoChan, backendCh |-> <<>>, remaining |-> 0, i |-> 0,
     acc |-> EmptyMap, received |-> <<>>, cost |-> 0]

\* the cache layer as NewSemanticCache builds it
InitSemanticCache ==
    /\ shouldErr = FALSE
    /\ batchProvider = TRUE
    /\ enableChunking = TRUE
    /\ config = DefaultChunkConfig
    /\ embedded = <<>>
    /\ batch = BatchIdle
    /\ async = AsyncIdle
    /\ ctx = "live"
    /\ closed = {}
    /\ single = SingleIdle

\* a fresh backend of one of the three in-memory kinds
InitBackend ==
    /\ entries = EmptyMap
    /\ index = EmptyMap
    /\ queue = <<>>
    /\ evictList = <<>>
    /\ Frequency = EmptyMap
    /\ cleanup = [p \in Procs |-> ZeroKey]
    /\ ret = [op |-> "New", key |-> ZeroKey, out |-> "nil"]
    /\ scan = ScanIdle
    /\ used = <<>>
    /\ inserted = <<>>
    /\ evicted = {}

Init ==
    /\ kind \in Kinds
    /\ capacity \in 1..MaxCapacity
    /\ InitBackend
    /\ InitSemanticCache

Next ==
    \/ \E key \in Keys, entry \in Entry : LRUSet(key, entry)
    \/ \E key \in Keys : LRUGet(key)
    \/ \E key \in Keys : LRUDelete(key)
    \/ \E key \in Keys : LRUContains(key)
    \/ LRUFlush
    \/ LRULen
    \/ LRUKeys
    \/ \E p \in Procs, key \in Keys : LRUGetEmbedding(p, key)
    \/ \E p \in Procs : LRUGetEmbeddingCleanup(p)
    \/ \E key \in Keys, entry \in Entry : FIFOSet(key, entry)
    \/ \E key \in Keys : FIFOGet(key)
    \/ \E key \in Keys : FIFODelete(key)
    \/ \E key \in Keys : FIFOContains(key)
    \/ FIFOFlush
    \/ FIFOLen
    \/ FIFOKeys
    \/ \E key \in Keys : FIFOGetEmbedding(key)
    \/ \E key \in Keys, entry \in Entry : LFUSet(key, entry)
    \/ \E key \in Keys : LFUGet(key)
    \/ \E key \in Keys : LFUDelete(key)
    \/ \E key \in Keys : LFUContains(key)
    \/ LFUFlush
    \/ LFULen
    \/ LFUKeys
    \/ \E key \in Keys : LFUGetEmbedding(key)

Spec == Init /\ [][Next]_vars

\* ---------------------------------------------------------- construction
\* lru.New (golang-lru v2): a size that is not positive is refused
lruNew(size) == IF size <= 0 THEN "must provide a positive size" ELSE "nil"

\* what NewLRUBackend, NewLFUBackend and NewFIFOBackend return for a
\* capacity: only NewLRUBackend can fail, with the error of lru.New
NewBackend(k, c) == IF k = "lru" THEN lruNew(c) ELSE "nil"

\* the constructor of one of the three backends has been called with a
\* capacity that may be 0; kind is "nil" when it returned no backend
InitNew ==
    /\ capacity \in 0..MaxCapacity
    /\ \E k \in Kinds :
         /\ kind = (IF NewBackend(k, capacity) = "nil" THEN k ELSE "nil")
         /\ ret = [op |-> "New", key |-> ZeroKey,
                   out |-> NewBackend(k, capacity)]
    /\ entries = EmptyMap
    /\ index = EmptyMap
    /\ queue = <<>>
    /\ evictList = <<>>
    /\ Frequency = EmptyMap
    /\ cleanup = [p \in Procs |-> ZeroKey]
    /\ scan = ScanIdle
    /\ used = <<>>
    /\ inserted = <<>>
    /\ evicted = {}
    /\ InitSemanticCache

SpecNew == InitNew /\ [][Next]_vars

\* ========================================================= SemanticCache
\* The cache is configured with the dot-product kernel.
comparator(a, b) == DotProductSimilarity(a, b)

\* the thresholds a caller passes to Lookup: one that some stored
\* embeddings reach for every query and others do not
Thresholds == {comparator(EmbedText(1), EmbedText(NumTexts))}

\* the calls SemanticCache makes through the CacheBackend interface
BackendSet(key, entry) ==
    \/ LRUBackendSet(key, entry)
    \/ LFUBackendSet(key, entry)
    \/ FIFOBackendSet(key, entry)

BackendGet(key) ==
    \/ LRUBackendGet(key)
    \/ LFUBackendGet(key)
    \/ FIFOBackendGet(key)

BackendDelete(key) ==
    \/ LRUBackendDelete(key)
    \/ LFUBackendDelete(key)
    \/ FIFOBackendDelete(key)

BackendKeys ==
    \/ LRUBackendKeys
    \/ (kind \in {"lfu", "fifo"} /\ UNCHANGED bvars)

\* a write by another goroutine while Lookup is running or before its result
\* has been taken
Disturbed(s) == IF s.pc = "idle" THEN s ELSE [s EXCEPT !.modified = TRUE]

\* SemanticCache.Set by another goroutine.  The texts of the model are within
\* the token limit, so the embedding is that of the whole text (no chunking);
\* the provider is called before the backend takes its lock.
CacheSet(key, inputText, value) ==
    /\ key # ZeroKey
    /\ LET embedding == EmbedText(inputText)
       IN  BackendSet(key, [Embedding |-> embedding, Value |-> value])
    /\ scan' = Disturbed(scan)
    /\ UNCHANGED <<cleanup, ret, used, inserted, evicted, svars>>

\* SemanticCache.Delete by another goroutine
CacheDelete(key) ==
    /\ BackendDelete(key)
    /\ scan' = Disturbed(scan)
    /\ UNCHANGED <<cleanup, ret, used, inserted, evicted, svars>>

\* Lookup: embed the query text
LookupEmbed(inputText, threshold) ==
    /\ scan.pc = "idle"
    /\ scan' = [ScanIdle EXCEPT !.pc = "keys",
                                !.embedding = EmbedText(inputText),
                                !.threshold = threshold]
    /\ UNCHANGED <<bvars, cleanup, ret, used, inserted, evicted, svars>>

\* the loop header: the next key, or return bestMatch after the last one
LookupAdvance(s) ==
    IF s.i < Len(s.keys)
    THEN [s EXCEPT !.pc = "embedding", !.i = @ + 1, !.emb = <<>>, !.score = 0]
    ELSE [s EXCEPT !.pc = "done", !.i = 0, !.emb = <<>>, !.score = 0]

\* Lookup: keys := backend.Keys(ctx), in the order the backend ranged its map
LookupKeys ==
    /\ scan.pc = "keys"
    /\ \E order \in RangeOrders(KeysResult) :
         scan' = LookupAdvance([scan EXCEPT !.keys = order, !.i = 0,
                                            !.bestMatch = NotFound,
                                            !.bestScore = scan.threshold])
    /\ BackendKeys
    /\ UNCHANGED <<cleanup, ret, used, inserted, evicted, svars>>

\* Lookup: backend.GetEmbedding(ctx, key) and the score.  On the LRU backend
\* a stale index entry leaves the goroutine inside GetEmbedding, before its
\* second critical section.
LookupGetEmbedding ==
    /\ scan.pc = "embedding"
    /\ LET key == scan.keys[scan.i]
           res == GetEmbeddingResult(key)
       IN  IF kind = "lru" /\ LRUBackendGetEmbeddingStale(key)
           THEN scan' = [scan EXCEPT !.pc = "cleanup"]
           ELSE IF ~res.found
           THEN scan' = LookupAdvance(scan)
           ELSE LET score == comparator(scan.embedding, res.embedding)
                IN  IF score >= scan.bestScore
                    THEN scan' = [scan EXCEPT !.pc = "get",
                                              !.emb = res.embedding,
                                              !.score = score]
                    ELSE scan' = LookupAdvance(scan)
    /\ UNCHANGED <<bvars, cleanup, ret, used, inserted, evicted, svars>>

\* Lookup: the second critical section of LRU GetEmbedding, which returns
\* not found
LookupGetEmbeddingCleanup ==
    /\ scan.pc = "cleanup"
    /\ LRUBackendGetEmbeddingCleanup(scan.keys[scan.i])
    /\ scan' = LookupAdvance(scan)
    /\ UNCHANGED <<cleanup, ret, used, inserted, evicted, svars>>

\* Lookup: backend.Get(ctx, key) for a key that scored at least bestScore.
\* split records that the entry read here does not carry the embedding the
\* score was computed from.
LookupGet ==
    /\ scan.pc = "get"
    /\ LET key == scan.keys[scan.i]
           res == GetResult(key)
       IN  /\ BackendGet(key)
           /\ IF res.found
              THEN scan' = LookupAdvance(
                     [scan EXCEPT !.bestMatch = [found |-> TRUE,
                                                 Value |-> res.entry.Value,
                                                 Score |-> scan.score],
                                  !.bestScore = scan.score,
                                  !.split = (res.entry.Embedding # scan.emb)])
              ELSE scan' = LookupAdvance(scan)
    /\ UNCHANGED <<cleanup, ret, used, inserted, evicted, svars>>

\* Lookup returns bestMatch to its caller
LookupReturn ==
    /\ scan.pc = "done"
    /\ Returned("Lookup", ZeroKey, scan.bestMatch)
    /\ scan' = ScanIdle
    /\ UNCHANGED <<bvars, cleanup, used, inserted, evicted, svars>>

\* the values of n a caller passes to TopMatches
TopNs == 0..MaxCapacity

\* TopMatches: n <= 0 is refused, otherwise embed the query text; a failing
\* backend makes Keys, and so TopMatches, return its error
TopMatchesEmbed(inputText, n) ==
    /\ scan.pc = "idle"
    /\ IF n <= 0
       THEN /\ Returned("TopMatches", ZeroKey, "n must be positive")
            /\ UNCHANGED scan
       ELSE IF shouldErr
       THEN /\ Returned("TopMatches", ZeroKey, "mock backend error")
            /\ UNCHANGED scan
       ELSE /\ scan' = [ScanIdle EXCEPT !.pc = "topkeys",
                                        !.embedding = EmbedText(inputText),
                                        !.n = n]
            /\ UNCHANGED ret
    /\ UNCHANGED <<bvars, cleanup, used, inserted, evicted, svars>>

\* the loop header of TopMatches: the next key, or sort after the last one
TopMatchesAdvance(s) ==
    IF s.i < Len(s.keys)
    THEN [s EXCEPT !.pc = "topembedding", !.i = @ + 1, !.emb = <<>>,
                   !.score = 0]
    ELSE [s EXCEPT !.pc = "topsort", !.i = 0, !.emb = <<>>, !.score = 0]

\* TopMatches: keys := backend.Keys(ctx) and matches := make(...)
TopMatchesKeys ==
    /\ scan.pc = "topkeys"
    /\ \E order \in RangeOrders(KeysResult) :
         scan' = TopMatchesAdvance([scan EXCEPT !.keys = order, !.i = 0,
                                                !.matches = <<>>])
    /\ BackendKeys
    /\ UNCHANGED <<cleanup, ret, used, inserted, evicted, svars>>

\* TopMatches: backend.GetEmbedding(ctx, key) and the score; a key that is
\* not found is skipped
TopMatchesGetEmbedding ==
    /\ scan.pc = "topembedding"
    /\ LET key == scan.keys[scan.i]
           res == GetEmbeddingResult(key)
       IN  IF kind = "lru" /\ LRUBackendGetEmbeddingStale(key)
           THEN scan' = [scan EXCEPT !.pc = "topcleanup"]
           ELSE IF ~res.found
           THEN scan' = TopMatchesAdvance(scan)
           ELSE scan' = [scan EXCEPT
                           !.pc = "topget",
                           !.emb = res.embedding,
                           !.score = comparator(scan.embedding, res.embedding)]
    /\ UNCHANGED <<bvars, cleanup, ret, used, inserted, evicted, svars>>

\* TopMatches: the second critical section of LRU GetEmbedding, which returns
\* not found
TopMatchesGetEmbeddingCleanup ==
    /\ scan.pc = "topcleanup"
    /\ LRUBackendGetEmbeddingCleanup(scan.keys[scan.i])
    /\ scan' = TopMatchesAdvance(scan)
    /\ UNCHANGED <<cleanup, ret, used, inserted, evicted, svars>>

\* mutant: a key whose entry is gone is appended with the zero value
TopMatchesGetAppendsAbsent ==
    /\ scan.pc = "topget"
    /\ LET key == scan.keys[scan.i]
           res == GetResult(key)
       IN  /\ BackendGet(key)
           /\ IF res.found
              THEN scan' = TopMatchesAdvance(
                     [scan EXCEPT !.matches = Append(@,
                                      [Value |-> res.entry.Value,
                                       Score |-> scan.score]),
                                  !.split = (@ \/ res.entry.Embedding # scan.emb)])
              ELSE scan' = TopMatchesAdvance(
                     [scan EXCEPT !.matches = Append(@,
                                      [Value |-> 0, Score |-> scan.score])])
    /\ UNCHANGED <<cleanup, ret, used, inserted, evicted, svars>>

\* TopMatches: backend.Get(ctx, key) and the append of the Match
TopMatchesGet ==
    /\ scan.pc = "topget"
    /\ LET key == scan.keys[scan.i]
           res == GetResult(key)
       IN  /\ BackendGet(key)
           /\ IF res.found
              THEN scan' = TopMatchesAdvance(
                     [scan EXCEPT !.matches = Append(@,
                                      [Value |-> res.entry.Value,
                                       Score |-> scan.score]),
                                  !.split = (@ \/ res.entry.Embedding # scan.emb)])
              ELSE scan' = TopMatchesAdvance(scan)
    /\ UNCHANGED <<cleanup, ret, used, inserted, evicted, svars>>

\* sort.Slice with less = (Score greater): the orders a sort that is not
\* stable may leave the matches in
SortedByScore(matches) ==
    LET idx   == 1..Len(matches)
        perms == {p \in [idx -> idx] : \A a, b \in idx : a # b => p[a] # p[b]}
    IN  { [j \in idx |-> matches[p[j]]] :
            p \in {q \in perms :
                     \A j \in idx : j < Len(matches) =>
                         matches[q[j]].Score >= matches[q[j + 1]].Score} }

\* TopMatches: sort the matches and cut them to the first n
TopMatchesSort ==
    /\ scan.pc = "topsort"
    /\ \E sorted \in SortedByScore(scan.matches) :
         scan' = [scan EXCEPT !.pc = "topdone",
                              !.matches = IF Len(sorted) > scan.n
                                          THEN SubSeq(sorted, 1, scan.n)
                                          ELSE sorted]
    /\ UNCHANGED <<bvars, cleanup, ret, used, inserted, evicted, svars>>

\* TopMatches returns the matches to its caller
TopMatchesReturn ==
    /\ scan.pc = "topdone"
    /\ Returned("TopMatches", ZeroKey, scan.matches)
    /\ scan' = ScanIdle
    /\ UNCHANGED <<bvars, cleanup, used, inserted, evicted, svars>>

NextCache ==
    \/ \E key \in Keys, inputText \in Texts, value \in Vals :
         CacheSet(key, inputText, value)
    \/ \E key \in Keys : CacheDelete(key)
    \/ \E inputText \in Texts, threshold \in Thresholds :
         LookupEmbed(inputText, threshold)
    \/ LookupKeys
    \/ LookupGetEmbedding
    \/ LookupGetEmbeddingCleanup
    \/ LookupGet
    \/ LookupReturn

\* a SemanticCache on a fresh backend of capacity 1, used by a goroutine that
\* calls Lookup while other goroutines write
InitCache == Init /\ capacity = 1

SpecCache == InitCache /\ [][NextCache]_vars

\* the same cache used by a goroutine that calls TopMatches while other
\* goroutines write
NextTop ==
    \/ \E key \in Keys, inputText \in Texts, value \in Vals :
         CacheSet(key, inputText, value)
    \/ \E key \in Keys : CacheDelete(key)
    \/ \E inputText \in Texts, n \in TopNs : TopMatchesEmbed(inputText, n)
    \/ TopMatchesKeys
    \/ TopMatchesGetEmbedding
    \/ TopMatchesGetEmbeddingCleanup
    \/ TopMatchesGet
    \/ TopMatchesSort
    \/ TopMatchesReturn

InitTop == Init /\ capacity = 1

SpecTop == InitTop /\ [][NextTop]_vars

\* SemanticCache.Flush by another goroutine
CacheFlush ==
    /\ (LRUBackendFlush \/ LFUBackendFlush \/ FIFOBackendFlush)
    /\ scan' = Disturbed(scan)
    /\ UNCHANGED <<cleanup, ret, used, inserted, evicted, svars>>

\* a goroutine that calls Lookup or TopMatches while other goroutines set,
\* delete and flush
NextScan ==
    \/ \E key \in Keys, inputText \in Texts : CacheSet(key, inputText, NumVals)
    \/ \E key \in Keys : CacheDelete(key)
    \/ CacheFlush
    \/ \E inputText \in Texts, threshold \in Thresholds :
         LookupEmbed(inputText, threshold)
    \/ LookupKeys
    \/ LookupGetEmbedding
    \/ LookupGetEmbeddingCleanup
    \/ LookupGet
    \/ LookupReturn
    \/ \E inputText \in Texts, n \in TopNs : TopMatchesEmbed(inputText, n)
    \/ TopMatchesKeys
    \/ TopMatchesGetEmbedding
    \/ TopMatchesGetEmbeddingCleanup
    \/ TopMatchesGet
    \/ TopMatchesSort
    \/ TopMatchesReturn

SpecScan == InitCache /\ [][NextScan]_vars

\* ================================================================ chunker
\* A text is a string of tokens 1..NumTexts, written as the number it spells
\* in bijective base NumTexts: 0 is the empty string and 1..NumTexts are the
\* texts of one token.
TokenBase == NumTexts

\* tokenizer.Codec.Encode: the token ids of a text
RECURSIVE Encode(_)
Encode(text) ==
    IF text = 0 THEN <<>>
    ELSE LET last == ((text - 1) % TokenBase) + 1
         IN  Append(Encode((text - last) \div TokenBase), last)

\* tokenizer.Codec.Decode: the text of a token slice
RECURSIVE Decode(_)
Decode(tokens) ==
    IF tokens = <<>> THEN 0
    ELSE Decode(SubSeq(tokens, 1, Len(tokens) - 1)) * TokenBase
           + tokens[Len(tokens)]

\* the texts of at most n tokens
RECURSIVE LastTextOf(_)
LastTextOf(n) == IF n = 0 THEN 0 ELSE LastTextOf(n - 1) * TokenBase + TokenBase

TextsUpTo(n) == 0..LastTextOf(n)

CountTokens(text) == IF text = 0 THEN 0 ELSE Len(Encode(text))

\* mutant: Validate accepts an overlap equal to the chunk size
ValidateOverlapMayEqual(c) ==
    IF c.MaxTokens <= 0 THEN "ErrInvalidMaxTokens"
    ELSE IF c.ChunkSize <= 0 THEN "ErrInvalidChunkSize"
    ELSE IF c.ChunkSize > c.MaxTokens THEN "ErrChunkSizeExceedsMax"
    ELSE IF c.ChunkOverlap < 0 THEN "ErrInvalidOverlap"
    ELSE IF c.ChunkOverlap > c.ChunkSize THEN "ErrOverlapTooLarge"
    ELSE "nil"

\* ChunkConfig.Validate: the first violated condition, in the order of the
\* checks
Validate(c) ==
    IF c.MaxTokens <= 0 THEN "ErrInvalidMaxTokens"
    ELSE IF c.ChunkSize <= 0 THEN "ErrInvalidChunkSize"
    ELSE IF c.ChunkSize > c.MaxTokens THEN "ErrChunkSizeExceedsMax"
    ELSE IF c.ChunkOverlap < 0 THEN "ErrInvalidOverlap"
    ELSE IF c.ChunkOverlap >= c.ChunkSize THEN "ErrOverlapTooLarge"
    ELSE "nil"

\* the configurations NewFixedOverlapChunker accepts
ChunkConfigs ==
    {c \in [MaxTokens : 1..MaxChunkSize, ChunkSize : 1..MaxChunkSize,
            ChunkOverlap : 0..MaxChunkSize] : Validate(c) = "nil"}

\* the chunker's token ceiling
GetMaxTokens == config.MaxTokens

\* a ChunkText loop whose last statement (the break on end >= totalTokens)
\* is missing
RECURSIVE chunkLoopNoBreak(_, _, _, _, _)
chunkLoopNoBreak(tokens, start, stride, chunkIndex, chunks) ==
    IF ~(start < Len(tokens)) THEN chunks
    ELSE LET sum == start + config.ChunkSize
             end == IF sum > Len(tokens) THEN Len(tokens) ELSE sum
             chunk == [Text       |-> Decode(SubSeq(tokens, start + 1, end)),
                       StartToken |-> start,
                       EndToken   |-> end,
                       Index      |-> chunkIndex]
         IN  chunkLoopNoBreak(tokens, start + stride, stride, chunkIndex + 1,
                              Append(chunks, chunk))

\* a ChunkText loop that does not cut the last chunk's end down to
\* totalTokens
RECURSIVE chunkLoopNoClamp(_, _, _, _, _)
chunkLoopNoClamp(tokens, start, stride, chunkIndex, chunks) ==
    IF ~(start < Len(tokens)) THEN chunks
    ELSE LET end == start + config.ChunkSize
             last == IF end > Len(tokens) THEN Len(tokens) ELSE end
             chunk == [Text       |-> Decode(SubSeq(tokens, start + 1, last)),
                       StartToken |-> start,
                       EndToken   |-> end,
                       Index      |-> chunkIndex]
         IN  IF end >= Len(tokens)
             THEN Append(chunks, chunk)
             ELSE chunkLoopNoClamp(tokens, start + stride, stride,
                                   chunkIndex + 1, Append(chunks, chunk))

\* the loop of ChunkText: for start := 0; start < totalTokens; start += stride
RECURSIVE chunkLoop(_, _, _, _, _)
chunkLoop(tokens, start, stride, chunkIndex, chunks) ==
    IF ~(start < Len(tokens)) THEN chunks
    ELSE LET sum == start + config.ChunkSize
             end == IF sum > Len(tokens) THEN Len(tokens) ELSE sum
             chunk == [Text       |-> Decode(SubSeq(tokens, start + 1, end)),
                       StartToken |-> start,
                       EndToken   |-> end,
                       Index      |-> chunkIndex]
         IN  IF end >= Len(tokens)
             THEN Append(chunks, chunk)
             ELSE chunkLoop(tokens, start + stride, stride, chunkIndex + 1,
                            Append(chunks, chunk))

\* FixedOverlapChunker.ChunkText
ChunkText(text) ==
    IF text = 0 THEN [err |-> "ErrEmptyText", chunks |-> <<>>]
    ELSE LET tokens == Encode(text)
             totalTokens == Len(tokens)
             diff == config.ChunkSize - config.ChunkOverlap
             stride == IF diff <= 0 THEN config.ChunkSize ELSE diff
         IN  IF totalTokens <= config.ChunkSize
             THEN [err |-> "nil",
                   chunks |-> <<[Text |-> text, StartToken |-> 0,
                                 EndToken |-> totalTokens, Index |-> 0]>>]
             ELSE [err |-> "nil",
                   chunks |-> chunkLoop(tokens, 0, stride, 0, <<>>)]

\* one call of ChunkText on a chunker built from a valid configuration
ChunkTextCall(text) ==
    /\ ret.op = "New"
    /\ Returned("ChunkText", ZeroKey, [text |-> text, res |-> ChunkText(text)])
    /\ UNCHANGED <<bvars, cleanup, scan, hvars, svars>>

InitChunk ==
    /\ kind = "fifo"
    /\ capacity = 1
    /\ InitBackend
    /\ shouldErr = FALSE
    /\ batchProvider = TRUE
    /\ enableChunking = TRUE
    /\ config \in ChunkConfigs
    /\ embedded = <<>>
    /\ batch = BatchIdle
    /\ async = AsyncIdle
    /\ ctx = "live"
    /\ closed = {}
    /\ single = SingleIdle

NextChunk == \E text \in TextsUpTo(MaxInputTokens) : ChunkTextCall(text)

SpecChunk == InitChunk /\ [][NextChunk]_vars

\* ================================================== SemanticCache.Set
\* OpenAIProvider.EmbedBatch: one vector per text, in input order
EmbedBatch(texts) == [j \in DOMAIN texts |-> EmbedText(texts[j])]

\* the sum of component i over the first n embeddings (components an
\* embedding does not have are skipped)
RECURSIVE sumComponent(_, _, _)
sumComponent(embeddings, i, n) ==
    IF n = 0 THEN 0
    ELSE sumComponent(embeddings, i, n - 1)
           + (IF i <= Len(embeddings[n]) THEN embeddings[n][i] ELSE 0)

\* mutant: the sum of the embeddings, not divided by their number
aggregateEmbeddingsSum(embeddings) ==
    IF Len(embeddings) = 0 THEN <<>>
    ELSE IF Len(embeddings) = 1 THEN embeddings[1]
    ELSE [i \in 1..Len(embeddings[1]) |->
            sumComponent(embeddings, i, Len(embeddings))]

\* SemanticCache.aggregateEmbeddings
aggregateEmbeddings(embeddings) ==
    IF Len(embeddings) = 0 THEN <<>>
    ELSE IF Len(embeddings) = 1 THEN embeddings[1]
    ELSE LET dim == Len(embeddings[1])
             count == Len(embeddings)
         IN  [i \in 1..dim |->
                sumComponent(embeddings, i, count) \div count]

\* mutant: a text of exactly GetMaxTokens() tokens is chunked too
NeedsChunksAtCeiling(inputText) ==
    /\ enableChunking
    /\ CountTokens(inputText) >= GetMaxTokens
    /\ ChunkText(inputText).err = "nil"
    /\ Len(ChunkText(inputText).chunks) > 1

\* Set's decision to chunk: chunking enabled, a chunker present, the text
\* above the token ceiling, and ChunkText returning more than one chunk
NeedsChunks(inputText) ==
    /\ enableChunking
    /\ CountTokens(inputText) > GetMaxTokens
    /\ ChunkText(inputText).err = "nil"
    /\ Len(ChunkText(inputText).chunks) > 1

\* setWithChunks: chunkTexts[i] = chunk.Text
chunkTexts(inputText) ==
    LET chunks == ChunkText(inputText).chunks
    IN  [j \in DOMAIN chunks |-> chunks[j].Text]

\* the provider calls Set makes for a text when none of them fails
ProviderCalls(inputText) ==
    IF NeedsChunks(inputText)
    THEN IF batchProvider
         THEN <<[op |-> "EmbedBatch", texts |-> chunkTexts(inputText)]>>
         ELSE [j \in DOMAIN chunkTexts(inputText) |->
                 [op |-> "EmbedText", texts |-> <<chunkTexts(inputText)[j]>>]]
    ELSE <<[op |-> "EmbedText", texts |-> <<inputText>>]>>

\* the embedding Set stores for a text
SetEmbedding(inputText) ==
    IF NeedsChunks(inputText)
    THEN LET texts == chunkTexts(inputText)
             embeddings == IF batchProvider THEN EmbedBatch(texts)
                           ELSE [j \in DOMAIN texts |-> EmbedText(texts[j])]
         IN  aggregateEmbeddings(embeddings)
    ELSE EmbedText(inputText)

\* mutant: Set embeds the text before it looks at the key
SetOutcomeEmbedsFirst(key, inputText, value, failAt) ==
    IF key = ZeroKey
    THEN [err |-> "key cannot be zero value", calls |-> ProviderCalls(inputText),
          write |-> FALSE]
    ELSE IF failAt > 0
    THEN [err |-> "provider error",
          calls |-> SubSeq(ProviderCalls(inputText), 1, failAt),
          write |-> FALSE]
    ELSE [err |-> "nil", calls |-> ProviderCalls(inputText), write |-> TRUE,
          entry |-> [Embedding |-> SetEmbedding(inputText), Value |-> value]]

\* mutant: a Set whose provider call fails writes the entry all the same
SetOutcomeWritesOnFailure(key, inputText, value, failAt) ==
    IF key = ZeroKey
    THEN [err |-> "key cannot be zero value", calls |-> <<>>, write |-> FALSE]
    ELSE IF failAt > 0
    THEN [err |-> "provider error",
          calls |-> SubSeq(ProviderCalls(inputText), 1, failAt),
          write |-> TRUE,
          entry |-> [Embedding |-> EmbedText(inputText), Value |-> value]]
    ELSE [err |-> "nil", calls |-> ProviderCalls(inputText), write |-> TRUE,
          entry |-> [Embedding |-> SetEmbedding(inputText), Value |-> value]]

\* what one call of Set does when its failAt-th provider call fails
\* (failAt = 0: none fails): the error it returns, the provider calls it
\* makes, and the entry it writes
SetOutcome(key, inputText, value, failAt) ==
    IF key = ZeroKey
    THEN [err |-> "key cannot be zero value", calls |-> <<>>, write |-> FALSE]
    ELSE IF failAt > 0
    THEN [err |-> "provider error",
          calls |-> SubSeq(ProviderCalls(inputText), 1, failAt),
          write |-> FALSE]
    ELSE [err |-> "nil", calls |-> ProviderCalls(inputText), write |-> TRUE,
          entry |-> [Embedding |-> SetEmbedding(inputText), Value |-> value]]

\* the provider calls of a Set that may fail
FailPoints(key, inputText) ==
    IF key = ZeroKey THEN {0} ELSE 0..Len(ProviderCalls(inputText))

\* a Set that stores a chunked text under a key derived from the caller's
SetCallDerivedKey(key, inputText, value, failAt) ==
    LET outcome == SetOutcome(key, inputText, value, failAt)
        derived == IF NeedsChunks(inputText) THEN (key % NumKeys) + 1 ELSE key
    IN  /\ failAt \in FailPoints(key, inputText)
        /\ embedded' = embedded \o outcome.calls
        /\ IF outcome.write
           THEN BackendSet(derived, outcome.entry)
           ELSE UNCHANGED bvars

\* SemanticCache.Set
SetCall(key, inputText, value, failAt) ==
    LET outcome == SetOutcome(key, inputText, value, failAt)
    IN  /\ failAt \in FailPoints(key, inputText)
        /\ embedded' = embedded \o outcome.calls
        /\ IF outcome.write
           THEN BackendSet(key, outcome.entry)
           ELSE UNCHANGED bvars

\* ============================================= SemanticCache.SetBatch
\* the texts passed to Set: a short one and one of MaxTextTokens tokens, the
\* last of which differs from the others
SetTexts == {1, LastTextOf(MaxTextTokens) - 1}

\* BatchItem; the fields of a record are written in the order TLC sorts them
BatchItem ==
    {[Value |-> value, Key |-> key, InputText |-> inputText] :
       key \in {ZeroKey} \cup Keys, inputText \in SetTexts, value \in Vals}

Batches == UNION {[1..n -> BatchItem] : n \in 0..MaxBatch}

\* SetBatch is called
BatchStart ==
    /\ batch.pc = "idle"
    /\ \E items \in Batches :
         batch' = [BatchIdle EXCEPT !.pc = IF Len(items) = 0 THEN "done"
                                          ELSE "loop",
                                   !.items = items,
                                   !.i = IF Len(items) = 0 THEN 0 ELSE 1]
    /\ embedded' = <<>>
    /\ UNCHANGED <<bvars, cleanup, ret, scan, hvars, ctx, closed, single, shouldErr,
                   batchProvider,
                   enableChunking, config, async>>

\* a loop that notes the first error and goes on with the next item
BatchAdvanceKeepGoing(b, err, events) ==
    LET first == IF b.err = "nil" THEN err ELSE b.err
    IN  IF b.i < Len(b.items)
        THEN [b EXCEPT !.i = @ + 1, !.err = first, !.log = @ \o events]
        ELSE [b EXCEPT !.pc = "done", !.i = 0, !.err = first,
                       !.log = @ \o events]

\* the loop header of SetBatch after item i: the next item, or return err
BatchAdvance(b, err, events) ==
    IF err # "nil"
    THEN [b EXCEPT !.pc = "done", !.err = err, !.log = @ \o events]
    ELSE IF b.i < Len(b.items)
    THEN [b EXCEPT !.i = @ + 1, !.log = @ \o events]
    ELSE [b EXCEPT !.pc = "done", !.i = 0, !.log = @ \o events]

\* one iteration of SetBatch: the zero-key check and the call of Set.  log
\* records which items reached the provider and which were written.
BatchStep ==
    /\ batch.pc = "loop"
    /\ LET item == batch.items[batch.i]
       IN  IF item.Key = ZeroKey
           THEN /\ batch' = BatchAdvance(batch, "key cannot be zero value",
                                         <<>>)
                /\ UNCHANGED <<bvars, embedded>>
           ELSE \E failAt \in FailPoints(item.Key, item.InputText) :
                  LET outcome == SetOutcome(item.Key, item.InputText,
                                            item.Value, failAt)
                      events ==
                        <<[item |-> batch.i, ev |-> "embed"]>> \o
                        (IF outcome.write
                         THEN <<[item |-> batch.i, ev |-> "write"]>>
                         ELSE <<>>)
                  IN  /\ SetCall(item.Key, item.InputText, item.Value, failAt)
                      /\ batch' = BatchAdvance(batch, outcome.err, events)
    /\ UNCHANGED <<cleanup, ret, scan, hvars, ctx, closed, single, shouldErr,
                   batchProvider,
                   enableChunking, config, async>>

\* SetBatch returns
BatchReturn ==
    /\ batch.pc = "done"
    /\ batch' = [batch EXCEPT !.pc = "returned"]
    /\ Returned("SetBatch", ZeroKey, batch.err)
    /\ UNCHANGED <<bvars, cleanup, scan, hvars, ctx, closed, single, shouldErr,
                   batchProvider,
                   enableChunking, config, embedded, async>>

\* a cache whose chunker cuts the long texts, on a fresh backend
InitBatch ==
    /\ kind \in Kinds
    /\ capacity \in 1..MaxCapacity
    /\ InitBackend
    /\ shouldErr = FALSE
    /\ batchProvider \in BOOLEAN
    /\ enableChunking = TRUE
    /\ config = [MaxTokens |-> MaxTextTokens - 1, ChunkSize |-> 2,
                 ChunkOverlap |-> 1]
    /\ embedded = <<>>
    /\ batch = BatchIdle
    /\ async = AsyncIdle
    /\ ctx = "live"
    /\ closed = {}
    /\ single = SingleIdle

NextBatch ==
    \/ BatchStart
    \/ BatchStep
    \/ BatchReturn

SpecBatch == InitBatch /\ [][NextBatch]_vars

\* ================================================================== async
\* One asynchronous operation of the cache at a time.  main is the goroutine
\* the operation starts, worker[j] the goroutine a batch operation starts for
\* its j-th item, backend[j] the goroutine of the backend's async method
\* called for the j-th item.  errCh is the channel the operation returns.
MaxAsyncBatch == 2

cvars == <<shouldErr, batchProvider, enableChunking, config, embedded, batch,
          ctx, closed, single>>

\* ch <- v can proceed
canSend(ch) == Len(ch.buf) < ch.cap

\* ch <- v
send(ch, v) == [ch EXCEPT !.buf = Append(@, v), !.sends = @ + 1]

\* <-ch can proceed
canRecv(ch) == Len(ch.buf) > 0

\* the channel after <-ch
recv(ch) == [ch EXCEPT !.buf = Tail(@)]

\* close(ch)
close(ch) == [ch EXCEPT !.closed = TRUE]

AsyncKeys == 0..MaxAsyncBatch

AsyncItem ==
    {[Value |-> NumVals, Key |-> key, InputText |-> inputText] :
       key \in AsyncKeys, inputText \in SetTexts}

AsyncBatches == UNION {[1..n -> AsyncItem] : n \in 0..MaxAsyncBatch}

\* a list of keys, as the items of a batch that carry no text and no value
KeyItem(key) == [Value |-> 0, Key |-> key, InputText |-> 0]

AsyncKeyLists == UNION {[1..n -> {KeyItem(key) : key \in AsyncKeys}] :
                          n \in 0..MaxAsyncBatch}

\* types.Entry[V]{}
ZeroEntry == [Embedding |-> <<>>, Value |-> 0]

\* every goroutine of the operation before has terminated
AsyncQuiet ==
    /\ async.main \in {"none", "done"}
    /\ \A j \in DOMAIN async.worker : async.worker[j] \in {"none", "done"}
    /\ \A j \in DOMAIN async.backend : async.backend[j] \in {"none", "done"}
    /\ scan.pc = "idle"

\* the caller starts an operation: its channel is made and its goroutine
\* started.  The calls a behaviour makes on the backend stay within the
\* bound of the frequency counters.
asyncStart(op, items, query) ==
    LET cost == IF Len(items) = 0 THEN 1 ELSE Len(items)
    IN  /\ AsyncQuiet
        /\ async.cost + cost <= MaxFreq
        /\ async' = [AsyncIdle EXCEPT
                       !.op = op, !.items = items, !.query = query,
                       !.main = "start", !.errCh = makeChan(1),
                       !.worker = [j \in DOMAIN items |-> "none"],
                       !.backend = [j \in 1..(IF Len(items) = 0 THEN 1
                                              ELSE Len(items)) |-> "none"],
                       !.backendCh = [j \in 1..(IF Len(items) = 0 THEN 1
                                                ELSE Len(items)) |-> NoChan],
                       !.cost = async.cost + cost]

asyncCall(op, items, query) ==
    /\ asyncStart(op, items, query)
    /\ UNCHANGED <<bvars, scan, cleanup, ret, hvars, cvars>>

SetAsync(key, inputText, value) ==
    asyncCall("SetAsync",
              <<[Value |-> value, Key |-> key, InputText |-> inputText]>>,
              <<>>)

GetAsync(key) == asyncCall("GetAsync", <<KeyItem(key)>>, <<>>)

LookupAsync(inputText, threshold) ==
    asyncCall("LookupAsync", <<>>, <<inputText, threshold>>)

TopMatchesAsync(inputText, n) ==
    asyncCall("TopMatchesAsync", <<>>, <<inputText, n>>)

SetBatchAsync(items) == asyncCall("SetBatchAsync", items, <<>>)

GetBatchAsync(keys) == asyncCall("GetBatchAsync", keys, <<>>)

DeleteBatchAsync(keys) == asyncCall("DeleteBatchAsync", keys, <<>>)

\* the backend's async method is called for item j: its channel is made and
\* its goroutine started
spawnBackend(a, j) ==
    [a EXCEPT !.backend[j] = "start", !.backendCh[j] = makeChan(1)]

\* SemanticCache.DeleteAsync returns the channel of the backend's DeleteAsync
DeleteAsync(key) ==
    /\ AsyncQuiet
    /\ async.cost + 1 <= MaxFreq
    /\ async' = spawnBackend(
                  [AsyncIdle EXCEPT !.op = "DeleteAsync",
                                    !.items = <<KeyItem(key)>>,
                                    !.backend = <<"none">>,
                                    !.backendCh = <<NoChan>>,
                                    !.cost = async.cost + 1], 1)
    /\ UNCHANGED <<bvars, scan, cleanup, ret, hvars, cvars>>

\* the channel the caller holds
Returned_ch == IF async.op = "DeleteAsync" THEN async.backendCh[1]
               ELSE async.errCh

\* main sends v on the returned channel and returns
deliver(a, v) == [a EXCEPT !.errCh = send(@, v), !.main = "exit"]

\* SetAsyncRun with a zero-key path that returns without sending
SetAsyncRunNoSend ==
    /\ async.op = "SetAsync"
    /\ async.main = "start"
    /\ LET it == async.items[1]
       IN  IF it.Key = ZeroKey
           THEN async' = [async EXCEPT !.main = "exit"]
           ELSE \E fail \in BOOLEAN :
                  IF fail
                  THEN /\ canSend(async.errCh)
                       /\ async' = deliver(async, "provider error")
                  ELSE async' = spawnBackend([async EXCEPT !.main = "wait"], 1)
    /\ UNCHANGED <<bvars, scan, cleanup, ret, hvars, cvars>>

\* the goroutine of SetAsync up to the call of the backend's SetAsync: the
\* text is embedded whole
SetAsyncRun ==
    /\ async.op = "SetAsync"
    /\ async.main = "start"
    /\ LET it == async.items[1]
       IN  IF it.Key = ZeroKey
           THEN /\ canSend(async.errCh)
                /\ async' = deliver(async, "key cannot be zero value")
           ELSE \E fail \in BOOLEAN :
                  IF fail
                  THEN /\ canSend(async.errCh)
                       /\ async' = deliver(async, "provider error")
                  ELSE async' = spawnBackend([async EXCEPT !.main = "wait"], 1)
    /\ UNCHANGED <<bvars, scan, cleanup, ret, hvars, cvars>>

\* the goroutines of GetAsync and GetBatchAsync up to their receive
GetAsyncRun ==
    /\ async.op \in {"GetAsync", "GetBatchAsync"}
    /\ async.main = "start"
    /\ async' = spawnBackend([async EXCEPT !.main = "wait", !.i = 1], 1)
    /\ UNCHANGED <<bvars, scan, cleanup, ret, hvars, cvars>>

\* what the cache makes of the value its backend delivered
fromBackend(op, v) ==
    CASE op = "SetAsync" -> v
      [] op = "GetAsync" ->
           IF v.Error # "nil"
           THEN [Value |-> 0, Found |-> FALSE, Error |-> v.Error]
           ELSE [Value |-> v.Entry.Value, Found |-> v.Found, Error |-> "nil"]
      [] op = "GetBatchAsync" ->
           IF v.Error # "nil"
           THEN [Values |-> EmptyMap, Error |-> v.Error]
           ELSE [Values |-> [key \in DOMAIN v.Entries |-> v.Entries[key].Value],
                 Error |-> "nil"]

\* errCh <- <-backendErrCh and its like in GetAsync and GetBatchAsync
AwaitBackend ==
    /\ async.op \in {"SetAsync", "GetAsync", "GetBatchAsync"}
    /\ async.main = "wait"
    /\ canRecv(async.backendCh[1])
    /\ canSend(async.errCh)
    /\ async' = deliver([async EXCEPT !.backendCh[1] = recv(@)],
                        fromBackend(async.op, Head(async.backendCh[1].buf)))
    /\ UNCHANGED <<bvars, scan, cleanup, ret, hvars, cvars>>

\* the goroutine of LookupAsync enters Lookup
LookupAsyncRun ==
    /\ async.op = "LookupAsync"
    /\ async.main = "start"
    /\ \E fail \in BOOLEAN :
         IF fail \/ shouldErr
         THEN /\ canSend(async.errCh)
              /\ async' = deliver(async,
                            [Match |-> NotFound,
                             Error |-> IF fail THEN "provider error"
                                       ELSE "mock backend error"])
              /\ UNCHANGED scan
         ELSE /\ async' = [async EXCEPT !.main = "scan"]
              /\ scan' = [ScanIdle EXCEPT !.pc = "keys",
                                          !.embedding = EmbedText(async.query[1]),
                                          !.threshold = async.query[2]]
    /\ UNCHANGED <<bvars, cleanup, ret, hvars, cvars>>

\* Lookup has returned: resultCh <- LookupResult{Match: match, Error: err}
LookupAsyncDeliver ==
    /\ async.op = "LookupAsync"
    /\ async.main = "scan"
    /\ scan.pc = "done"
    /\ canSend(async.errCh)
    /\ async' = deliver(async, [Match |-> scan.bestMatch, Error |-> "nil"])
    /\ scan' = ScanIdle
    /\ UNCHANGED <<bvars, cleanup, ret, hvars, cvars>>

\* the goroutine of TopMatchesAsync enters TopMatches
TopMatchesAsyncRun ==
    /\ async.op = "TopMatchesAsync"
    /\ async.main = "start"
    /\ \E fail \in BOOLEAN :
         IF async.query[2] <= 0 \/ fail \/ shouldErr
         THEN /\ canSend(async.errCh)
              /\ async' = deliver(async,
                            [Matches |-> <<>>,
                             Error |-> IF async.query[2] <= 0
                                       THEN "n must be positive"
                                       ELSE IF fail THEN "provider error"
                                       ELSE "mock backend error"])
              /\ UNCHANGED scan
         ELSE /\ async' = [async EXCEPT !.main = "scan"]
              /\ scan' = [ScanIdle EXCEPT !.pc = "topkeys",
                                          !.embedding = EmbedText(async.query[1]),
                                          !.n = async.query[2]]
    /\ UNCHANGED <<bvars, cleanup, ret, hvars, cvars>>

\* TopMatches has returned
TopMatchesAsyncDeliver ==
    /\ async.op = "TopMatchesAsync"
    /\ async.main = "scan"
    /\ scan.pc = "topdone"
    /\ canSend(async.errCh)
    /\ async' = deliver(async, [Matches |-> scan.matches, Error |-> "nil"])
    /\ scan' = ScanIdle
    /\ UNCHANGED <<bvars, cleanup, ret, hvars, cvars>>

\* the goroutine of SetBatchAsync up to its wait loop: the empty batch, the
\* check of every key, resultCh and one worker per item
SetBatchAsyncRun ==
    /\ async.op = "SetBatchAsync"
    /\ async.main = "start"
    /\ LET items == async.items
       IN  IF Len(items) = 0
           THEN /\ canSend(async.errCh)
                /\ async' = deliver(async, "nil")
           ELSE IF \E j \in DOMAIN items : items[j].Key = ZeroKey
           THEN /\ canSend(async.errCh)
                /\ async' = deliver(async, "key cannot be zero value")
           ELSE async' = [async EXCEPT
                            !.main = "wait",
                            !.resultCh = makeChan(Len(items)),
                            !.worker = [j \in DOMAIN items |-> "start"],
                            !.remaining = Len(items)]
    /\ UNCHANGED <<bvars, scan, cleanup, ret, hvars, cvars>>

\* DeleteBatchAsyncRun with an unbuffered resultCh
DeleteBatchAsyncRunUnbuffered ==
    /\ async.op = "DeleteBatchAsync"
    /\ async.main = "start"
    /\ LET keys == async.items
       IN  IF Len(keys) = 0
           THEN /\ canSend(async.errCh)
                /\ async' = deliver([async EXCEPT !.resultCh = makeChan(0)],
                                    "nil")
           ELSE async' = [async EXCEPT
                            !.main = "wait",
                            !.resultCh = makeChan(0),
                            !.worker = [j \in DOMAIN keys |-> "start"],
                            !.remaining = Len(keys)]
    /\ UNCHANGED <<bvars, scan, cleanup, ret, hvars, cvars>>

\* the goroutine of DeleteBatchAsync up to its wait loop; with no keys the
\* loop is skipped and nil is sent
DeleteBatchAsyncRun ==
    /\ async.op = "DeleteBatchAsync"
    /\ async.main = "start"
    /\ LET keys == async.items
       IN  IF Len(keys) = 0
           THEN /\ canSend(async.errCh)
                /\ async' = deliver([async EXCEPT !.resultCh = makeChan(0)],
                                    "nil")
           ELSE async' = [async EXCEPT
                            !.main = "wait",
                            !.resultCh = makeChan(Len(keys)),
                            !.worker = [j \in DOMAIN keys |-> "start"],
                            !.remaining = Len(keys)]
    /\ UNCHANGED <<bvars, scan, cleanup, ret, hvars, cvars>>

\* the worker of item j up to its receive: a SetBatchAsync worker embeds the
\* whole text of its item, then the backend's async method is called
BatchWorkerRun(j) ==
    /\ j \in DOMAIN async.worker
    /\ async.worker[j] = "start"
    /\ IF async.op = "SetBatchAsync"
       THEN \E fail \in BOOLEAN :
              IF fail
              THEN /\ canSend(async.resultCh)
                   /\ async' = [async EXCEPT
                                  !.worker[j] = "done",
                                  !.resultCh = send(@, "provider error")]
              ELSE async' = spawnBackend([async EXCEPT !.worker[j] = "wait"], j)
       ELSE async' = spawnBackend([async EXCEPT !.worker[j] = "wait"], j)
    /\ UNCHANGED <<bvars, scan, cleanup, ret, hvars, cvars>>

\* resultCh <- setResult{err: <-backendErrCh}, after which the worker returns
BatchWorkerDeliver(j) ==
    /\ j \in DOMAIN async.worker
    /\ async.worker[j] = "wait"
    /\ canRecv(async.backendCh[j])
    /\ canSend(async.resultCh)
    /\ async' = [async EXCEPT
                   !.worker[j] = "done",
                   !.backendCh[j] = recv(@),
                   !.resultCh = send(@, Head(async.backendCh[j].buf))]
    /\ UNCHANGED <<bvars, scan, cleanup, ret, hvars, cvars>>

\* one round of the wait loop: the first error is sent and the goroutine
\* returns; after the last result nil is sent
BatchCollect ==
    /\ async.op \in {"SetBatchAsync", "DeleteBatchAsync"}
    /\ async.main = "wait"
    /\ canRecv(async.resultCh)
    /\ LET result == Head(async.resultCh.buf)
           a == [async EXCEPT !.resultCh = recv(@), !.remaining = @ - 1]
       IN  IF result # "nil"
           THEN /\ canSend(async.errCh)
                /\ async' = deliver(a, result)
           ELSE IF a.remaining = 0
           THEN /\ canSend(async.errCh)
                /\ async' = deliver(a, "nil")
           ELSE async' = a
    /\ UNCHANGED <<bvars, scan, cleanup, ret, hvars, cvars>>

\* defer close(errCh) as the goroutine returns
MainExit ==
    /\ async.main = "exit"
    /\ async' = [async EXCEPT !.main = "done", !.errCh = close(@)]
    /\ UNCHANGED <<bvars, scan, cleanup, ret, hvars, cvars>>

\* mutant: the entry handed to the backend carries the zero value
asyncEntryZeroValue(it) == [Embedding |-> EmbedText(it.InputText), Value |-> 0]

\* the entry an async Set hands to the backend
asyncEntry(it) == [Embedding |-> EmbedText(it.InputText), Value |-> it.Value]

\* the goroutine of the backend's SetAsync, GetAsync or DeleteAsync for item
\* j: the synchronous call, whose result is sent on the goroutine's channel
BackendAsyncRun(j) ==
    /\ j \in DOMAIN async.backend
    /\ async.backend[j] = "start"
    /\ async.op # "GetBatchAsync"
    /\ canSend(async.backendCh[j])
    /\ LET it == async.items[j]
           result ==
             IF async.op \in {"SetAsync", "SetBatchAsync", "DeleteAsync",
                              "DeleteBatchAsync"}
             THEN IF shouldErr THEN "mock backend error" ELSE "nil"
             ELSE IF shouldErr
             THEN [Entry |-> ZeroEntry, Found |-> FALSE,
                   Error |-> "mock backend error"]
             ELSE IF GetResult(it.Key).found
             THEN [Entry |-> GetResult(it.Key).entry, Found |-> TRUE,
                   Error |-> "nil"]
             ELSE [Entry |-> ZeroEntry, Found |-> FALSE, Error |-> "nil"]
       IN  /\ IF shouldErr THEN UNCHANGED bvars
              ELSE IF async.op \in {"SetAsync", "SetBatchAsync"}
              THEN BackendSet(it.Key, asyncEntry(it))
              ELSE IF async.op = "GetAsync"
              THEN BackendGet(it.Key)
              ELSE BackendDelete(it.Key)
           /\ async' = [async EXCEPT !.backend[j] = "exit",
                                     !.backendCh[j] = send(@, result)]
    /\ UNCHANGED <<scan, cleanup, ret, hvars, cvars>>

\* the goroutine of the backend's GetBatchAsync: one Get per key, each in its
\* own critical section, then the entries found are sent with a nil error
BackendGetBatchRun ==
    /\ async.op = "GetBatchAsync"
    /\ async.backend[1] = "start"
    /\ IF async.i <= Len(async.items)
       THEN LET key == async.items[async.i].Key
            IN  IF shouldErr
                THEN /\ async' = [async EXCEPT !.i = @ + 1]
                     /\ UNCHANGED bvars
                ELSE /\ BackendGet(key)
                     /\ async' = [async EXCEPT
                                    !.i = @ + 1,
                                    !.acc = IF GetResult(key).found
                                            THEN MapPut(@, key,
                                                        GetResult(key).entry)
                                            ELSE @]
       ELSE /\ canSend(async.backendCh[1])
            /\ async' = [async EXCEPT
                           !.backend[1] = "exit",
                           !.backendCh[1] = send(@, [Entries |-> async.acc,
                                                     Error |-> "nil"])]
            /\ UNCHANGED bvars
    /\ UNCHANGED <<scan, cleanup, ret, hvars, cvars>>

\* defer close of the backend goroutine's channel as it returns
BackendAsyncExit(j) ==
    /\ j \in DOMAIN async.backend
    /\ async.backend[j] = "exit"
    /\ async' = [async EXCEPT !.backend[j] = "done",
                              !.backendCh[j] = close(@)]
    /\ UNCHANGED <<bvars, scan, cleanup, ret, hvars, cvars>>

\* the caller receives from the channel it was given
asyncReceive ==
    /\ async.op # "none"
    /\ canRecv(Returned_ch)
    /\ async' = IF async.op = "DeleteAsync"
                THEN [async EXCEPT !.backendCh[1] = recv(@),
                                   !.received = Append(@, Head(Returned_ch.buf))]
                ELSE [async EXCEPT !.errCh = recv(@),
                                   !.received = Append(@, Head(Returned_ch.buf))]

AsyncReceive ==
    /\ asyncReceive
    /\ UNCHANGED <<bvars, scan, cleanup, ret, hvars, cvars>>

\* the steps of the goroutines the operation started
GoroutineStep ==
    \/ SetAsyncRun
    \/ GetAsyncRun
    \/ AwaitBackend
    \/ LookupAsyncRun
    \/ LookupKeys
    \/ LookupGetEmbedding
    \/ LookupGet
    \/ LookupAsyncDeliver
    \/ TopMatchesAsyncRun
    \/ TopMatchesKeys
    \/ TopMatchesGetEmbedding
    \/ TopMatchesGet
    \/ TopMatchesSort
    \/ TopMatchesAsyncDeliver
    \/ SetBatchAsyncRun
    \/ DeleteBatchAsyncRun
    \/ \E j \in 1..MaxAsyncBatch : BatchWorkerRun(j)
    \/ \E j \in 1..MaxAsyncBatch : BatchWorkerDeliver(j)
    \/ BatchCollect
    \/ MainExit
    \/ \E j \in 1..MaxAsyncBatch : BackendAsyncRun(j)
    \/ BackendGetBatchRun
    \/ \E j \in 1..MaxAsyncBatch : BackendAsyncExit(j)

\* the calls of the caller
CallerStep ==
    \/ \E it \in AsyncItem : SetAsync(it.Key, it.InputText, it.Value)
    \/ \E key \in AsyncKeys : GetAsync(key)
    \/ \E key \in AsyncKeys : DeleteAsync(key)
    \/ \E inputText \in Texts, threshold \in Thresholds :
         LookupAsync(inputText, threshold)
    \/ \E inputText \in Texts, n \in TopNs : TopMatchesAsync(inputText, n)
    \/ \E items \in AsyncBatches : SetBatchAsync(items)
    \/ \E keys \in AsyncKeyLists : GetBatchAsync(keys)
    \/ \E keys \in AsyncKeyLists : DeleteBatchAsync(keys)
    \/ AsyncReceive

NextAsync == GoroutineStep \/ CallerStep

\* a cache on a fresh in-memory backend, or on the test backend that fails
\* every call, with a chunker whose token ceiling the longer text exceeds
InitAsync ==
    /\ shouldErr \in BOOLEAN
    /\ kind \in (IF shouldErr THEN {"fifo"} ELSE Kinds)
    /\ capacity \in (IF shouldErr THEN {1} ELSE 1..MaxCapacity)
    /\ InitBackend
    /\ batchProvider = TRUE
    /\ enableChunking = TRUE
    /\ config = [MaxTokens |-> MaxTextTokens - 1, ChunkSize |-> 2,
                 ChunkOverlap |-> 1]
    /\ embedded = <<>>
    /\ batch = BatchIdle
    /\ async = AsyncIdle
    /\ ctx = "live"
    /\ closed = {}
    /\ single = SingleIdle

SpecAsync == InitAsync /\ [][NextAsync]_vars

\* the Go scheduler runs every goroutine that can take a step; nothing makes
\* the caller call or receive
SpecAsyncFair == InitAsync /\ [][NextAsync]_vars /\ WF_vars(GoroutineStep)

\* ======================================================= synchronous calls
\* One caller uses the cache through its synchronous methods, one call at a
\* time, and passes the context ctx to each call.
pvars == <<shouldErr, batchProvider, enableChunking, config, embedded, batch,
          async>>

\* context.WithCancel: the caller takes a fresh context
WithCancel ==
    /\ scan.pc = "idle"
    /\ ctx' = "live"
    /\ Returned("WithCancel", ZeroKey, "nil")
    /\ UNCHANGED <<bvars, cleanup, scan, hvars, pvars, closed, single>>

\* cancel(): between two calls, or while Lookup or TopMatches still has a
\* backend call to make
Cancel ==
    /\ ctx = "live"
    /\ scan.pc \notin {"done", "topsort", "topdone"}
    /\ ctx' = "cancelled"
    /\ IF scan.pc = "idle" THEN Returned("cancel", ZeroKey, "nil")
       ELSE UNCHANGED ret
    /\ UNCHANGED <<bvars, cleanup, scan, hvars, pvars, closed, single>>

\* a Set that leaves the entry of a key that is already present as it is
SetKeepsPresent(key, inputText, value) ==
    /\ scan.pc = "idle"
    /\ \E failAt \in FailPoints(key, inputText) :
         LET outcome == SetOutcome(key, inputText, value, failAt)
         IN  /\ embedded' = outcome.calls
             /\ IF outcome.write /\ ~ContainsResult(key)
                THEN BackendSet(key, outcome.entry)
                ELSE UNCHANGED bvars
             /\ Returned("Set", key, outcome.err)
    /\ UNCHANGED <<cleanup, scan, hvars, shouldErr, batchProvider,
                   enableChunking, config, batch, async, ctx, closed, single>>

\* SemanticCache.Set: neither the provider nor an in-memory backend reads ctx
Set(key, inputText, value) ==
    /\ scan.pc = "idle"
    /\ \E failAt \in FailPoints(key, inputText) :
         LET outcome == SetOutcome(key, inputText, value, failAt)
         IN  /\ embedded' = outcome.calls
             /\ IF outcome.write
                THEN BackendSet(key, outcome.entry)
                ELSE UNCHANGED bvars
             /\ Returned("Set", key, outcome.err)
    /\ UNCHANGED <<cleanup, scan, hvars, shouldErr, batchProvider,
                   enableChunking, config, batch, async, ctx, closed, single>>

\* what SemanticCache.Get returns for key
GetOutcome(key) ==
    IF GetResult(key).found
    THEN [Value |-> GetResult(key).entry.Value, Found |-> TRUE, Error |-> "nil"]
    ELSE [Value |-> 0, Found |-> FALSE, Error |-> "nil"]

\* SemanticCache.Get
Get(key) ==
    /\ scan.pc = "idle"
    /\ BackendGet(key)
    /\ Returned("Get", key, GetOutcome(key))
    /\ UNCHANGED <<cleanup, scan, hvars, svars>>

\* SemanticCache.Delete
Delete(key) ==
    /\ scan.pc = "idle"
    /\ BackendDelete(key)
    /\ Returned("Delete", key, "nil")
    /\ UNCHANGED <<cleanup, scan, hvars, svars>>

\* SemanticCache.Flush
Flush ==
    /\ scan.pc = "idle"
    /\ (LRUBackendFlush \/ LFUBackendFlush \/ FIFOBackendFlush)
    /\ Returned("Flush", ZeroKey, "nil")
    /\ UNCHANGED <<cleanup, scan, hvars, svars>>

\* SemanticCache.Close: sc.provider.Close() and return nil
Close ==
    /\ scan.pc = "idle"
    /\ closed' = closed \cup {"provider"}
    /\ Returned("Close", ZeroKey, "nil")
    /\ UNCHANGED <<bvars, cleanup, scan, hvars, pvars, ctx, single>>

NextSync ==
    \/ \E key \in {ZeroKey} \cup Keys, inputText \in SetTexts, value \in Vals :
         Set(key, inputText, value)
    \/ \E key \in Keys : Get(key)
    \/ \E key \in Keys : Delete(key)
    \/ Flush
    \/ Close
    \/ \E inputText \in Texts, threshold \in Thresholds :
         LookupEmbed(inputText, threshold)
    \/ LookupKeys
    \/ LookupGetEmbedding
    \/ LookupGet
    \/ LookupReturn

\* the calls that take a context, and the caller cancelling it
NextCancel ==
    \/ WithCancel
    \/ Cancel
    \/ \E key \in {ZeroKey} \cup Keys, inputText \in SetTexts, value \in Vals :
         Set(key, inputText, value)
    \/ \E key \in Keys : Get(key)
    \/ \E key \in Keys : Delete(key)
    \/ \E inputText \in Texts, threshold \in Thresholds :
         LookupEmbed(inputText, threshold)
    \/ LookupKeys
    \/ LookupGetEmbedding
    \/ LookupGet
    \/ LookupReturn
    \/ \E inputText \in Texts, n \in TopNs : TopMatchesEmbed(inputText, n)
    \/ TopMatchesKeys
    \/ TopMatchesGetEmbedding
    \/ TopMatchesGet
    \/ TopMatchesSort
    \/ TopMatchesReturn

\* a cache without chunking on a fresh in-memory backend
InitSync ==
    /\ kind \in Kinds
    /\ capacity \in 1..MaxCapacity
    /\ InitBackend
    /\ shouldErr = FALSE
    /\ batchProvider = TRUE
    /\ enableChunking = FALSE
    /\ config = [MaxTokens |-> MaxTextTokens - 1, ChunkSize |-> 2,
                 ChunkOverlap |-> 1]
    /\ embedded = <<>>
    /\ batch = BatchIdle
    /\ async = AsyncIdle
    /\ ctx = "live"
    /\ closed = {}
    /\ single = SingleIdle

SpecSync == InitSync /\ [][NextSync]_vars

InitCancel == InitSync /\ capacity = 1

SpecCancel == InitCancel /\ [][NextCancel]_vars

\* ================================================================ claims
LiveKeys == {key \in Keys : ContainsResult(key)}

NoCallInProgress == \A p \in Procs : cleanup[p] = ZeroKey

StaleIndexKeys == (DOMAIN index) \ (DOMAIN entries)

\* C1: whenever no call is in progress, Keys() is exactly the set of keys
\* for which Contains is true, and Len() is the size of that set.
C1_KeysAreTheLiveKeys ==
    NoCallInProgress =>
        /\ KeysResult = LiveKeys
        /\ LenResult = Cardinality(LiveKeys)

\* C2: whenever no call is in progress, GetEmbedding(k) reports found exactly
\* when Get(k) does, and returns the embedding of the entry Get(k) returns.
C2_GetEmbeddingConsistentWithGet ==
    NoCallInProgress =>
        \A key \in Keys :
            /\ GetEmbeddingResult(key).found = GetResult(key).found
            /\ GetResult(key).found =>
                 GetEmbeddingResult(key).embedding = GetResult(key).entry.Embedding

\* C3: index coherence: in every state (also with stale, not yet reconciled
\* LRU index entries and with calls in progress) a key is in the result of
\* Keys() if and only if GetEmbedding reports it found.
C3_IndexCoherence ==
    \A key \in Keys : (key \in KeysResult) <=> GetEmbeddingResult(key).found

C3_Witness ==
    /\ kind = "lru"
    /\ StaleIndexKeys # {}
    /\ KeysResult # {}
    /\ ret.op = "GetEmbedding"

\* C5: eviction bound: when the backend was created with capacity > 0, the
\* state a Set returns in has Len() <= capacity.
C5_EvictionBound ==
    (capacity > 0 /\ ret.op = "Set") => LenResult <= capacity

C5_Witness ==
    /\ kind = "fifo"
    /\ ret.op = "Set"
    /\ capacity > 0
    /\ LenResult = capacity
    /\ evicted # {}

\* position of a key in a history
RECURSIVE Position(_, _)
Position(h, key) ==
    IF h = <<>> THEN 1
    ELSE IF Head(h) = key THEN 1 ELSE 1 + Position(Tail(h), key)

\* the stored key that is first in history h
Oldest(h) ==
    CHOOSE key \in DOMAIN entries :
        \A other \in DOMAIN entries : Position(h, key) <= Position(h, other)

\* the key the LRU cache removes at its next overflow
LRUNextVictim ==
    IF evictList = <<>> THEN ZeroKey ELSE evictList[Len(evictList)]

\* C6: LRU recency: a Set of a new key on an LRU backend holding exactly
\* `capacity` keys evicts exactly the key whose most recent Get or Set is
\* oldest; Contains, GetEmbedding, Keys and Len leave the next victim as is.
C6_LRURecency ==
    [][ /\ \A key \in Keys, entry \in Entry :
             ( /\ LRUSet(key, entry)
               /\ key \notin DOMAIN entries
               /\ Cardinality(DOMAIN entries) = capacity )
             => Removed = {Oldest(used)}
        /\ ( \/ \E key \in Keys : LRUContains(key)
             \/ \E p \in Procs, key \in Keys : LRUGetEmbedding(p, key)
             \/ \E p \in Procs : LRUGetEmbeddingCleanup(p)
             \/ LRUKeys
             \/ LRULen )
           => LRUNextVictim' = LRUNextVictim
      ]_vars

C6_Witness ==
    /\ kind = "lru"
    /\ capacity = MaxCapacity
    /\ ret.op = "Set"
    /\ Len(evictList) = capacity
    /\ evicted # {}
    /\ used[Len(used)] = ret.key

\* C7: FIFO order: a Set of a new key on a FIFO backend at capacity evicts
\* the key inserted longest ago; a Get and a Set that overwrites a stored key
\* leave the eviction order as it is, and the overwriting Set evicts nothing.
C7_FIFOOrder ==
    [][ \A key \in Keys, entry \in Entry :
          /\ ( /\ FIFOSet(key, entry)
               /\ key \notin DOMAIN entries
               /\ capacity > 0
               /\ Cardinality(DOMAIN entries) = capacity )
             => Removed = {Oldest(inserted)}
          /\ (FIFOSet(key, entry) /\ key \in DOMAIN entries)
             => (Removed = {} /\ queue' = queue)
          /\ FIFOGet(key) => (Removed = {} /\ queue' = queue)
      ]_vars

C7_Witness ==
    /\ kind = "fifo"
    /\ capacity = MaxCapacity
    /\ ret.op = "Set"
    /\ Len(queue) = capacity
    /\ queue[Len(queue)] = ret.key
    /\ evicted # {}

\* C8: LFU eviction: a Set of a new key that overflows an LFU backend evicts
\* exactly one entry, one of smallest frequency among the entries present
\* before the insertion, and the inserted key is stored afterwards.
C8_LFUEviction ==
    [][ \A key \in Keys, entry \in Entry :
          ( /\ LFUSet(key, entry)
            /\ key \notin DOMAIN entries
            /\ capacity > 0
            /\ Cardinality(DOMAIN entries) >= capacity )
          => /\ \E victim \in DOMAIN entries :
                  /\ Removed = {victim}
                  /\ \A other \in DOMAIN entries :
                        Frequency[victim] <= Frequency[other]
             /\ key \in DOMAIN entries'
             /\ DOMAIN entries' = ((DOMAIN entries) \ Removed) \cup {key}
      ]_vars

C8_Witness ==
    /\ kind = "lfu"
    /\ capacity = MaxCapacity
    /\ ret.op = "Set"
    /\ Cardinality(DOMAIN entries) = capacity
    /\ Frequency[ret.key] = 1
    /\ evicted # {}
    /\ \E key \in DOMAIN entries : Frequency[key] > 1

\* C9: LFU frequency accounting: a key's frequency is 1 when it is inserted,
\* grows by exactly 1 on each Get that finds it and each Set that overwrites
\* it, and is left alone by Contains, GetEmbedding, Keys and Len.
C9_LFUFrequency ==
    [][ /\ \A key \in Keys, entry \in Entry :
             /\ (LFUSet(key, entry) /\ key \notin DOMAIN entries)
                => Frequency'[key] = 1
             /\ (LFUSet(key, entry) /\ key \in DOMAIN entries)
                => Frequency'[key] = Frequency[key] + 1
             /\ (LFUGet(key) /\ key \in DOMAIN entries)
                => Frequency'[key] = Frequency[key] + 1
        /\ ( \/ \E key \in Keys : LFUContains(key)
             \/ \E key \in Keys : LFUGetEmbedding(key)
             \/ LFUKeys
             \/ LFULen )
           => Frequency' = Frequency
      ]_vars

C9_Witness ==
    /\ kind = "lfu"
    /\ ret.op = "Contains"
    /\ ret.key \in DOMAIN entries
    /\ Frequency[ret.key] = MaxFreq
    /\ \E key \in DOMAIN entries : Frequency[key] = 1

\* the score of a stored key against the query of the running Lookup
ScoreOf(key) == comparator(scan.embedding, GetResult(key).entry.Embedding)

\* C4: a Lookup that runs concurrently with Sets never returns a Match whose
\* score was computed from one version of an entry's embedding and whose
\* value was read from another version of the entry.
C4_LookupNeverSplit ==
    (scan.pc = "done" /\ scan.bestMatch.found) => ~scan.split

\* C10: a Lookup that ran with no concurrent modification returns nothing
\* exactly when no live key scores at least the threshold; otherwise its
\* Match has the maximum score over the live keys, which is at least the
\* threshold, and the value stored under a key with that score.
C10_LookupResult ==
    (scan.pc = "done" /\ ~scan.modified) =>
        LET qualifying == {key \in LiveKeys : ScoreOf(key) >= scan.threshold}
            best == scan.bestMatch
        IN  IF qualifying = {}
            THEN ~best.found
            ELSE /\ best.found
                 /\ best.Score >= scan.threshold
                 /\ \A key \in LiveKeys : best.Score >= ScoreOf(key)
                 /\ \E key \in LiveKeys :
                       /\ ScoreOf(key) = best.Score
                       /\ GetResult(key).entry.Value = best.Value

\* C11: SetBatchAsync waits for all of its per-item tasks: once its result
\* has been sent on the returned channel, every worker has returned and no
\* backend write of the batch is still to come.
C11_SetBatchAsyncWaitsForAll ==
    (async.op = "SetBatchAsync" /\ async.errCh.sends > 0) =>
        \A j \in DOMAIN async.worker :
            /\ async.worker[j] \in {"none", "done"}
            /\ async.backend[j] # "start"

\* the goroutines that own a channel handed to a caller, with that channel
AsyncChannels ==
    (IF async.main = "none" THEN {}
     ELSE {[pc |-> async.main, ch |-> async.errCh]})
    \cup {[pc |-> async.backend[j], ch |-> async.backendCh[j]] :
            j \in {k \in DOMAIN async.backend : async.backend[k] # "none"}}

\* C12: the channel returned by every async operation of the cache and of
\* the backend receives exactly one value and is then closed, on every path:
\* never a second value, one value sent when its goroutine returns, closed
\* exactly when the goroutine has returned.
C12_SingleDelivery ==
    \A g \in AsyncChannels :
        /\ g.ch.sends <= 1
        /\ g.pc \in {"exit", "done"} => g.ch.sends = 1
        /\ g.ch.closed <=> g.pc = "done"
        /\ Len(g.ch.buf) <= g.ch.cap

C12_Witness ==
    /\ async.op = "SetBatchAsync"
    /\ async.errCh.closed
    /\ async.received = <<"provider error">>
    /\ \E j \in DOMAIN async.backend : async.backendCh[j].closed

C14_AsyncSetEquivalent ==
    ( /\ async.op \in {"SetAsync", "SetBatchAsync"}
      /\ async.received = <<"nil">>
      /\ Len(async.items) <= capacity )
    => \A j \in DOMAIN async.items :
         LET it == async.items[j]
         IN  (\A k \in DOMAIN async.items : k # j => async.items[k].Key # it.Key)
             => GetResult(it.Key) =
                  [found |-> TRUE,
                   entry |-> SetOutcome(it.Key, it.InputText, it.Value,
                                        0).entry]

\* C15: concurrent Sets on one key are linearizable: each Set runs in one
\* critical section, so when a Set on key has returned and no other call on
\* the backend has run since, Get(key) returns the entry that Set wrote and
\* GetEmbedding(key) returns the embedding of that same entry; after a group
\* of Sets on one key, the pair observed is the pair of the Set that ran last.
C15_SetsLinearizable ==
    [][ \A key \in Keys, entry \in Entry :
          (LRUSet(key, entry) \/ LFUSet(key, entry) \/ FIFOSet(key, entry))
          => /\ GetResult(key)' = [found |-> TRUE, entry |-> entry]
             /\ GetEmbeddingResult(key)' =
                    [found |-> TRUE, embedding |-> entry.Embedding]
      ]_vars

\* two Sets on one key have returned, with no Get on the key in between
C15_Witness ==
    /\ kind = "lfu"
    /\ ret.op = "Set"
    /\ ret.key \in DOMAIN Frequency
    /\ Frequency[ret.key] = 2

\* the smallest integer that is at least a / b, for b > 0
CeilDiv(a, b) == (a + b - 1) \div b

Min(a, b) == IF a < b THEN a ELSE b

Max(a, b) == IF a > b THEN a ELSE b

\* C19: chunk count: under a valid configuration with chunkSize s and overlap
\* o, ChunkText emits ceil((N - s) / (s - o)) + 1 chunks for a text of N > s
\* tokens and exactly one chunk, spanning [0, N), for a text of 0 < N <= s
\* tokens.
C19_ChunkCount ==
    ret.op = "ChunkText" =>
        LET N == CountTokens(ret.out.text)
            s == config.ChunkSize
            o == config.ChunkOverlap
            chunks == ret.out.res.chunks
        IN  /\ N > s => Len(chunks) = CeilDiv(N - s, s - o) + 1
            /\ (0 < N /\ N <= s) =>
                  /\ Len(chunks) = 1
                  /\ chunks[1].StartToken = 0
                  /\ chunks[1].EndToken = N

\* a text that needs three or more overlapping chunks has been chunked
C19_Witness ==
    /\ ret.op = "ChunkText"
    /\ config.ChunkOverlap > 0
    /\ CountTokens(ret.out.text) > config.ChunkSize
    /\ Len(ret.out.res.chunks) >= 3
    /\ (CountTokens(ret.out.text) - config.ChunkSize)
         % (config.ChunkSize - config.ChunkOverlap) # 0

\* C20: chunk layout: for N > chunkSize under a valid configuration the
\* chunks carry the indices 0..m-1 in emission order, chunk i covers the
\* tokens [i(s-o), min(i(s-o)+s, N)), the first chunk starts at 0, the last
\* ends at N, every chunk has endToken > startToken, and consecutive chunks
\* share exactly o tokens.
C20_ChunkLayout ==
    (ret.op = "ChunkText" /\ CountTokens(ret.out.text) > config.ChunkSize) =>
        LET N == CountTokens(ret.out.text)
            s == config.ChunkSize
            o == config.ChunkOverlap
            chunks == ret.out.res.chunks
            m == Len(chunks)
        IN  /\ m >= 1
            /\ \A j \in 1..m :
                  /\ chunks[j].Index = j - 1
                  /\ chunks[j].StartToken = (j - 1) * (s - o)
                  /\ chunks[j].EndToken = Min((j - 1) * (s - o) + s, N)
                  /\ chunks[j].EndToken > chunks[j].StartToken
            /\ chunks[1].StartToken = 0
            /\ chunks[m].EndToken = N
            /\ \A j \in 1..(m - 1) :
                  Min(chunks[j].EndToken, chunks[j + 1].EndToken)
                    - Max(chunks[j].StartToken, chunks[j + 1].StartToken) = o

\* a text has been cut into chunks of which the last is shorter than the
\* chunk size
C20_Witness ==
    /\ ret.op = "ChunkText"
    /\ config.ChunkOverlap > 0
    /\ Len(ret.out.res.chunks) >= 3
    /\ LET chunks == ret.out.res.chunks
           last == chunks[Len(chunks)]
       IN  last.EndToken - last.StartToken < config.ChunkSize

\* the items of the batch that were written, in the order of the writes
BatchWrites ==
    LET isWrite(e) == e.ev = "write"
        writes == SelectSeq(batch.log, isWrite)
    IN  [j \in DOMAIN writes |-> writes[j].item]

\* the value of the last item before item i that carries the key
LastValueBefore(i, key) ==
    LET js == {j \in 1..(i - 1) : batch.items[j].Key = key}
        last == CHOOSE j \in js : \A other \in js : other <= j
    IN  batch.items[last].Value

\* SetBatch has returned the error of item batch.i
BatchFailed == batch.pc = "returned" /\ batch.err # "nil"

\* the error SetBatch returned is the one item batch.i fails with, and
\* nothing of a later item reached the provider or the backend
BatchStoppedAtFailure ==
    LET i == batch.i
    IN  /\ i \in 1..Len(batch.items)
        /\ ret.op = "SetBatch"
        /\ ret.out = (IF batch.items[i].Key = ZeroKey
                      THEN "key cannot be zero value" ELSE "provider error")
        /\ \A n \in DOMAIN batch.log :
              /\ batch.log[n].item <= i
              /\ batch.log[n].ev = "write" => batch.log[n].item < i
              /\ n > 1 => batch.log[n - 1].item <= batch.log[n].item

\* C16: a TopMatches with n > 0 that ran with no concurrent modification
\* returns a list sorted by non-increasing score, of length min(n, number of
\* live entries), whose Matches belong to distinct live keys; no threshold
\* filters the result.
C16_TopMatchesResult ==
    (scan.pc = "topdone" /\ scan.n > 0 /\ ~scan.modified) =>
        LET matches == scan.matches
            idx     == 1..Len(matches)
        IN  /\ \A j \in idx : j < Len(matches) =>
                   matches[j].Score >= matches[j + 1].Score
            /\ Len(matches) = Min(scan.n, Cardinality(LiveKeys))
            /\ \E owner \in [idx -> LiveKeys] :
                   /\ \A a, b \in idx : a # b => owner[a] # owner[b]
                   /\ \A j \in idx :
                          /\ matches[j].Value = GetResult(owner[j]).entry.Value
                          /\ matches[j].Score = ScoreOf(owner[j])


\* C17: SetBatch is fail-fast and non-transactional: items go through Set in
\* list order; if item i fails, SetBatch returns that item's error, every
\* item before i remains stored, and no item after i is embedded or written.
C17_SetBatchFailFast ==
    BatchFailed =>
        /\ BatchStoppedAtFailure
        /\ \A j \in 1..(batch.i - 1) : ContainsResult(batch.items[j].Key)

\* C17 as amended: if item i fails, SetBatch returns that item's error, every
\* item before i has been written through Set, once and in list order, and
\* no write is undone: the stored keys are keys of items before i, each with
\* the value of the last item before i that carries it, and all of these keys
\* are stored when they are not more than the capacity; no item after i is
\* embedded or written.
C17_SetBatchFailFastAmended ==
    BatchFailed =>
        /\ BatchStoppedAtFailure
        /\ BatchWrites = [j \in 1..(batch.i - 1) |-> j]
        /\ LET before == {batch.items[j].Key : j \in 1..(batch.i - 1)}
           IN  /\ LiveKeys \subseteq before
               /\ \A key \in LiveKeys :
                     GetResult(key).entry.Value = LastValueBefore(batch.i, key)
               /\ Cardinality(before) <= capacity => LiveKeys = before

\* the second of three items has failed in the provider after the first was
\* written
C17_Witness ==
    /\ BatchFailed
    /\ Len(batch.items) = 3
    /\ batch.i = 2
    /\ batch.items[2].Key # ZeroKey
    /\ batch.items[3].Key # ZeroKey
    /\ BatchWrites = <<1>>
    /\ ContainsResult(batch.items[1].Key)

C21_CapacityZeroUnbounded ==
    capacity = 0 =>
        /\ ret.op = "New" => ret.out = "nil"
        /\ kind \in Kinds
        /\ ret.op = "Set" => evicted = {}

\* the operations of SemanticCache that take a context
ContextOps == {"Set", "Get", "Delete", "Lookup", "TopMatches"}

\* context.Canceled
Canceled == "context canceled"

\* whether the last call returned context.Canceled; Lookup and TopMatches
\* return their matches, or the error of their argument check
ReturnedCanceled ==
    CASE ret.op \in {"Set", "Delete"} -> ret.out = Canceled
      [] ret.op = "Get" -> ret.out.Error = Canceled
      [] OTHER -> FALSE

\* C22: a call of Set, Get, Delete, Lookup or TopMatches whose context is
\* cancelled before the call or before one of its backend calls returns the
\* context's cancellation error.
C22_CancellationSurfaced ==
    (ctx = "cancelled" /\ scan.pc = "idle" /\ ret.op \in ContextOps)
        => ReturnedCanceled

\* C23: after SemanticCache.Close returns, the Close of the provider and the
\* Close of the backend have both been invoked.
C23_CloseClosesBoth ==
    ret.op = "Close" => {"provider", "backend"} \subseteq closed

\* the positions of scan.keys whose live key scores highest among those that
\* reach the threshold
BestPositions ==
    LET cand == {i \in DOMAIN scan.keys :
                   /\ scan.keys[i] \in LiveKeys
                   /\ ScoreOf(scan.keys[i]) >= scan.threshold}
    IN  {i \in cand : \A j \in cand : ScoreOf(scan.keys[j]) <= ScoreOf(scan.keys[i])}

\* C24: when several live keys share the maximal score >= threshold, a Lookup
\* with no concurrent modification returns the Match of the first of them in
\* the scan order.
C24_LookupFirstOfTies ==
    (scan.pc = "done" /\ BestPositions # {}) =>
        LET first == CHOOSE i \in BestPositions : \A j \in BestPositions : i <= j
        IN  /\ scan.bestMatch.found
            /\ scan.bestMatch.Value = GetResult(scan.keys[first]).entry.Value

\* a step that may end the life of key's entry: a Set or Delete on key, a
\* Flush, or a Set of another key into a full backend
EndsEntry(key) ==
    \/ ret'.op \in {"Set", "Delete"} /\ ret'.key = key
    \/ ret'.op = "Flush"
    \/ ret'.op = "Set" /\ Cardinality(LiveKeys) = capacity

C25_LFUVictimDetermined ==
    (kind = "lfu" /\ capacity > 0 /\ Cardinality(DOMAIN entries) >= capacity) =>
        \A o1, o2 \in RangeOrders(DOMAIN entries) : evictLFU(o1) = evictLFU(o2)

\* the eviction order without key: recency list, queue, frequencies
OrderWithout(key) ==
    [evictList |-> Without(evictList, key),
     queue     |-> Without(queue, key),
     Frequency |-> MapDelete(Frequency, key)]

\* C30: Delete(k) returns no error whether or not k is present; afterwards
\* Contains(k) is false and Get(k) and GetEmbedding(k) report not found, and
\* every other key keeps its value, its embedding and its position in the
\* eviction order.
C30_DeleteIdempotentLocal ==
    [][\A key \in Keys :
         (BackendDelete(key) /\ ret'.op = "Delete" /\ ret'.key = key) =>
            /\ ret'.out = "nil"
            /\ ~ContainsResult(key)'
            /\ ~GetResult(key)'.found
            /\ ~GetEmbeddingResult(key)'.found
            /\ \A other \in Keys \ {key} :
                 /\ ContainsResult(other)' = ContainsResult(other)
                 /\ GetResult(other)' = GetResult(other)
                 /\ GetEmbeddingResult(other)' = GetEmbeddingResult(other)
            /\ [evictList |-> evictList', queue |-> queue',
                Frequency |-> Frequency'] = OrderWithout(key)
      ]_vars

\* a Delete returned and left another key stored
C30_Witness ==
    /\ ret.op = "Delete"
    /\ ret.key \notin LiveKeys
    /\ LiveKeys # {}

\* the key the scan of Lookup or TopMatches is at
ScanKey == scan.keys[scan.i]

\* a step of the scanning goroutine; a writer only marks the scan disturbed
ScanStep == scan'.pc # scan.pc \/ scan'.i # scan.i

\* the scan keeps its result so far and moves to the next key or to its end
ScanSkips ==
    /\ scan'.bestMatch = scan.bestMatch
    /\ scan'.matches = scan.matches
    /\ scan'.pc \in {"embedding", "done", "topembedding", "topsort"}

\* C26: a key returned by Keys() that a concurrent Delete, Flush or eviction
\* removed before Lookup or TopMatches read its embedding or its entry is
\* skipped: the result gets no Match for it, and the call returns its result
\* without error.
C26_ScanSkipsAbsentKeys ==
    [][ScanStep =>
         /\ (scan.pc \in {"embedding", "topembedding"}
               /\ ~GetEmbeddingResult(ScanKey).found) =>
              \/ ScanSkips
              \/ /\ scan'.pc \in {"cleanup", "topcleanup"}
                 /\ scan'.bestMatch = scan.bestMatch
                 /\ scan'.matches = scan.matches
         /\ scan.pc \in {"cleanup", "topcleanup"} => ScanSkips
         /\ (scan.pc \in {"get", "topget"} /\ ~GetResult(ScanKey).found) =>
              ScanSkips
         /\ scan.pc = "done" =>
              ret' = [op |-> "Lookup", key |-> ZeroKey, out |-> scan.bestMatch]
         /\ scan.pc = "topdone" =>
              ret' = [op |-> "TopMatches", key |-> ZeroKey, out |-> scan.matches]
      ]_vars

\* TopMatches got one key from Keys() and reached its end with no Match: the
\* key was gone when its embedding or its entry was read
C26_Witness ==
    /\ scan.pc = "topdone"
    /\ Len(scan.keys) = 1
    /\ scan.matches = <<>>

\* =========================================== asynchronous, then synchronous
\* A caller that mixes SetAsync and GetAsync with the synchronous calls.  In
\* ret it keeps a note of the last SetAsync(key, _, Value) whose nil it has
\* received: removed says that a call it issued since may have evicted key,
\* overwritten that it has issued another SetAsync on key since.  A
\* synchronous call replaces the note by its own result.
Note(key, value, removed, overwritten) ==
    [op |-> "note", key |-> key,
     out |-> [Value |-> value, removed |-> removed,
              overwritten |-> overwritten]]

\* the caller calls SetAsync
SetAsyncNoted(key, inputText, value) ==
    /\ asyncStart("SetAsync",
                  <<[Value |-> value, Key |-> key, InputText |-> inputText]>>,
                  <<>>)
    /\ ret' = IF ret.op # "note"
              THEN [op |-> "SetAsync", key |-> key, out |-> "pending"]
              ELSE IF key = ret.key
              THEN [ret EXCEPT !.out.overwritten = TRUE]
              ELSE IF /\ key # ZeroKey
                      /\ ~ContainsResult(key)
                      /\ Cardinality({k \in Keys : ContainsResult(k)}) >= capacity
              THEN [ret EXCEPT !.out.removed = TRUE]
              ELSE ret
    /\ UNCHANGED <<bvars, scan, cleanup, hvars, cvars>>

\* the caller receives from the channel; a nil from SetAsync is noted unless
\* a synchronous call was made since SetAsync was called
Observe ==
    /\ asyncReceive
    /\ ret' = IF /\ async.op = "SetAsync"
                 /\ Head(Returned_ch.buf) = "nil"
                 /\ ret.op \in {"SetAsync", "note"}
              THEN Note(async.items[1].Key, async.items[1].Value, FALSE, FALSE)
              ELSE ret
    /\ UNCHANGED <<bvars, scan, cleanup, hvars, cvars>>

NextMixed ==
    \/ \E key \in AsyncKeys, value \in Vals : SetAsyncNoted(key, 1, value)
    \/ \E key \in AsyncKeys \ {ZeroKey} : GetAsync(key)
    \/ Observe
    \/ \E key \in AsyncKeys, value \in Vals : Set(key, 1, value)
    \/ \E key \in AsyncKeys \ {ZeroKey} : Get(key)
    \/ SetAsyncRun
    \/ GetAsyncRun
    \/ AwaitBackend
    \/ MainExit
    \/ BackendAsyncRun(1)
    \/ BackendAsyncExit(1)

SpecMixed == InitSync /\ [][NextMixed]_vars

\* the caller holds a note that no call of its own has put in doubt
NoteClean == ret.op = "note" /\ ~ret.out.removed /\ ~ret.out.overwritten

\* what Get and GetAsync return for the noted key while the note stands
Expected == [Value |-> ret.out.Value, Found |-> TRUE, Error |-> "nil"]

\* C27: Set and SetAsync with the zero key return (deliver) an error, make no
\* provider call and leave the backend as it is.  The goroutine of SetAsync
\* calls the provider on its way to "wait" or to "provider error".
C27_ZeroKeyRejected ==
    [][/\ \A inputText \in SetTexts, value \in Vals :
            Set(ZeroKey, inputText, value) =>
               /\ ret'.out = "key cannot be zero value"
               /\ embedded' = <<>>
               /\ UNCHANGED bvars
       /\ (/\ async.op = "SetAsync"
           /\ async.items[1].Key = ZeroKey
           /\ async' # async
           /\ async'.cost = async.cost) =>
               /\ UNCHANGED bvars
               /\ async'.main \in {"exit", "done"}
               /\ async'.backend[1] = "none"
               /\ async'.received # async.received =>
                    async'.received = <<"key cannot be zero value">>
      ]_vars

\* both Set and SetAsync were called with the zero key and the error of
\* SetAsync was received
C27_Witness ==
    /\ ret.op = "Set"
    /\ ret.key = ZeroKey
    /\ async.op = "SetAsync"
    /\ async.items[1].Key = ZeroKey
    /\ async.received = <<"key cannot be zero value">>

\* C29 as stated: after nil was received from SetAsync(k, t, v), and with no
\* Delete, Flush or eviction of k since, Get(k) returns (v, true, nil).
C29_AsyncHappensBefore ==
    (ret.op = "note" /\ ~ret.out.removed) => GetOutcome(ret.key) = Expected

\* C29, amended: after nil was received from SetAsync(k, t, v), and with no
\* other Set, SetAsync, Delete, Flush or eviction of k since that SetAsync
\* was called, Get(k) and GetAsync(k) return (v, true, nil).
C29_AsyncHappensBeforeNoOverwrite ==
    [][/\ NoteClean' => (GetOutcome(ret.key) = Expected)'
       /\ (NoteClean /\ ret'.op = "Get" /\ ret'.key = ret.key) =>
             ret'.out = Expected
       /\ (/\ NoteClean
           /\ async.op = "GetAsync"
           /\ async.items[1].Key = ret.key
           /\ async'.cost = async.cost
           /\ async'.received # async.received) =>
             async'.received = <<Expected>>
      ]_vars

\* the caller received from GetAsync(k) while its note of SetAsync(k, t, v)
\* stood
C29_Witness ==
    /\ NoteClean
    /\ async.op = "GetAsync"
    /\ async.items[1].Key = ret.key
    /\ Len(async.received) = 1

\* ================================================================== Flush
\* Flush of any of the three backends; the history keeps the keys it took out
FlushStored ==
    /\ \/ LRUBackendFlush
       \/ FIFOBackendFlush
       \/ LFUBackendFlush
    /\ Returned("Flush", ZeroKey, "nil")
    /\ evicted' = Removed
    /\ used' = <<>>
    /\ inserted' = <<>>
    /\ UNCHANGED <<cleanup, scan, svars>>

NextFlush ==
    \/ Next
    \/ FlushStored

SpecFlush == Init /\ [][NextFlush]_vars

\* the fields of a backend as its constructor leaves them
FreshBackend ==
    [entries |-> EmptyMap, index |-> EmptyMap, queue |-> <<>>,
     evictList |-> <<>>, Frequency |-> EmptyMap]

\* C31: after Flush, Len() = 0, Keys() is empty, Get, GetEmbedding and
\* Contains report absent for every key, and every field of the backend is
\* what the constructor of a backend of the same kind and capacity leaves:
\* no insertion order, recency, frequency or index entry is left over.
C31_FlushResets ==
    [][(LRUBackendFlush \/ FIFOBackendFlush \/ LFUBackendFlush) =>
         /\ LenResult' = 0
         /\ KeysResult' = {}
         /\ \A key \in Keys :
              /\ ~GetResult(key)'.found
              /\ ~GetEmbeddingResult(key)'.found
              /\ ~ContainsResult(key)'
         /\ [entries |-> entries', index |-> index', queue |-> queue',
             evictList |-> evictList', Frequency |-> Frequency'] = FreshBackend
         /\ kind' = kind
         /\ capacity' = capacity
      ]_vars

\* a Flush returned that emptied a full backend
C31_Witness ==
    /\ ret.op = "Flush"
    /\ Cardinality(evicted) = capacity
    /\ LenResult = 0

\* ================================================ chunker construction
\* NewFixedOverlapChunker: no chunker and the wrapped error of Validate, or
\* a chunker that holds the configuration
NewFixedOverlapChunker(c) ==
    IF Validate(c) # "nil"
    THEN [chunker |-> "nil", err |-> <<"invalid chunk config", Validate(c)>>]
    ELSE [chunker |-> [config |-> c], err |-> "nil"]

\* the configurations a caller can pass, valid or not
AnyChunkConfigs ==
    {[MaxTokens |-> m, ChunkSize |-> s, ChunkOverlap |-> o] :
       m \in -1..MaxChunkSize, s \in -1..MaxChunkSize, o \in -1..MaxChunkSize}

ValidateCall ==
    /\ Returned("Validate", ZeroKey, Validate(config))
    /\ UNCHANGED <<bvars, cleanup, scan, hvars, svars>>

NewFixedOverlapChunkerCall ==
    /\ Returned("NewFixedOverlapChunker", ZeroKey, NewFixedOverlapChunker(config))
    /\ UNCHANGED <<bvars, cleanup, scan, hvars, svars>>

InitValidate ==
    /\ kind = "fifo"
    /\ capacity = 1
    /\ InitBackend
    /\ shouldErr = FALSE
    /\ batchProvider = TRUE
    /\ enableChunking = TRUE
    /\ config \in AnyChunkConfigs
    /\ embedded = <<>>
    /\ batch = BatchIdle
    /\ async = AsyncIdle
    /\ ctx = "live"
    /\ closed = {}
    /\ single = SingleIdle

NextValidate ==
    \/ ValidateCall
    \/ NewFixedOverlapChunkerCall

SpecValidate == InitValidate /\ [][NextValidate]_vars

\* the five conditions of a valid configuration
ConfigValid(c) ==
    /\ c.MaxTokens > 0
    /\ c.ChunkSize > 0
    /\ c.ChunkOverlap >= 0
    /\ c.ChunkSize <= c.MaxTokens
    /\ c.ChunkOverlap < c.ChunkSize

\* the condition a named error stands for is violated by c
Violates(c, err) ==
    \/ err = "ErrInvalidMaxTokens" /\ ~(c.MaxTokens > 0)
    \/ err = "ErrInvalidChunkSize" /\ ~(c.ChunkSize > 0)
    \/ err = "ErrInvalidOverlap" /\ ~(c.ChunkOverlap >= 0)
    \/ err = "ErrChunkSizeExceedsMax" /\ ~(c.ChunkSize <= c.MaxTokens)
    \/ err = "ErrOverlapTooLarge" /\ ~(c.ChunkOverlap < c.ChunkSize)

\* C32: Validate returns nil exactly when the five conditions hold and
\* otherwise the named error of a condition the configuration violates;
\* NewFixedOverlapChunker then returns no chunker and that error, wrapped,
\* and a chunker for a valid configuration.
C32_ValidateExact ==
    /\ ret.op = "Validate" =>
         /\ ret.out = "nil" <=> ConfigValid(config)
         /\ ret.out # "nil" => Violates(config, ret.out)
    /\ ret.op = "NewFixedOverlapChunker" =>
         /\ ret.out.err = "nil" <=> ConfigValid(config)
         /\ ret.out.err # "nil" =>
              /\ ret.out.chunker = "nil"
              /\ Violates(config, ret.out.err[2])
         /\ ret.out.err = "nil" => ret.out.chunker = [config |-> config]

\* NewFixedOverlapChunker refused a configuration whose only fault is an
\* overlap equal to the chunk size
C32_Witness ==
    /\ ret.op = "NewFixedOverlapChunker"
    /\ config.MaxTokens > 0
    /\ config.ChunkSize > 0
    /\ config.ChunkSize <= config.MaxTokens
    /\ config.ChunkOverlap = config.ChunkSize
    /\ ret.out.chunker = "nil"
    /\ ret.out.err[2] = "ErrOverlapTooLarge"

ConfigValidate(cfg) ==
    IF cfg.Backend = "nil" THEN "backend is required"
    ELSE IF cfg.Provider = "nil" THEN "provider is required"
    ELSE "nil"

\* options.NewConfig: chunking enabled, MaxTokens 0 (taken from the provider)
NewConfig ==
    [Backend |-> "nil", Provider |-> "nil", EnableChunking |-> TRUE,
     ChunkConfig |-> [DefaultChunkConfig EXCEPT !.MaxTokens = 0]]

\* the configurations the options can leave: a backend and a provider or
\* none, and either chunking switched off or a chunk configuration
Configs ==
    {[NewConfig EXCEPT !.Backend = b, !.Provider = p, !.ChunkConfig = c] :
       b \in {"nil", "fifo"}, p \in {"nil", "mock"}, c \in AnyChunkConfigs}
    \cup {[NewConfig EXCEPT !.Backend = "fifo", !.Provider = "mock",
                            !.EnableChunking = FALSE]}

\* mutant: when no chunker can be built New falls back to one that cuts
\* every text into single tokens
NewFallsBack(cfg, limit) ==
    IF ConfigValidate(cfg) # "nil"
    THEN [err |-> ConfigValidate(cfg)]
    ELSE IF ~cfg.EnableChunking
    THEN [err |-> "nil", backend |-> cfg.Backend, enableChunking |-> FALSE,
          made |-> FALSE, chunker |-> cfg.ChunkConfig]
    ELSE LET chunkConfig == IF cfg.ChunkConfig.MaxTokens = 0
                            THEN [cfg.ChunkConfig EXCEPT !.MaxTokens = limit]
                            ELSE cfg.ChunkConfig
             made == NewFixedOverlapChunker(chunkConfig).err = "nil"
         IN  [err |-> "nil", backend |-> cfg.Backend, enableChunking |-> TRUE,
              made |-> made,
              chunker |-> IF made THEN chunkConfig
                          ELSE [MaxTokens |-> 1, ChunkSize |-> 1,
                                ChunkOverlap |-> 0]]

\* New, for a provider whose GetMaxTokens() is limit: the error it returns
\* and the fields of the cache; chunker is the configuration New handed to
\* NewFixedOverlapChunker and made says whether a chunker came back
New(cfg, limit) ==
    IF ConfigValidate(cfg) # "nil"
    THEN [err |-> ConfigValidate(cfg)]
    ELSE IF ~cfg.EnableChunking
    THEN [err |-> "nil", backend |-> cfg.Backend, enableChunking |-> FALSE,
          made |-> FALSE, chunker |-> cfg.ChunkConfig]
    ELSE LET chunkConfig == IF cfg.ChunkConfig.MaxTokens = 0
                            THEN [cfg.ChunkConfig EXCEPT !.MaxTokens = limit]
                            ELSE cfg.ChunkConfig
             made == NewFixedOverlapChunker(chunkConfig).err = "nil"
         IN  [err |-> "nil", backend |-> cfg.Backend, enableChunking |-> made,
              made |-> made, chunker |-> chunkConfig]

\* New has returned
InitNewCache ==
    /\ capacity = 1
    /\ \E cfg \in Configs, limit \in 1..MaxChunkSize :
         LET cache == New(cfg, limit)
         IN  /\ ret = [op |-> "New", key |-> ZeroKey, out |-> cache.err]
             /\ IF cache.err = "nil"
                THEN /\ kind = cache.backend
                     /\ enableChunking = cache.enableChunking
                     /\ config = cache.chunker
                ELSE /\ kind = "nil"
                     /\ enableChunking = FALSE
                     /\ config = cfg.ChunkConfig
    /\ entries = EmptyMap
    /\ index = EmptyMap
    /\ queue = <<>>
    /\ evictList = <<>>
    /\ Frequency = EmptyMap
    /\ cleanup = [p \in Procs |-> ZeroKey]
    /\ scan = ScanIdle
    /\ used = <<>>
    /\ inserted = <<>>
    /\ evicted = {}
    /\ shouldErr = FALSE
    /\ batchProvider \in BOOLEAN
    /\ embedded = <<>>
    /\ batch = BatchIdle
    /\ async = AsyncIdle
    /\ ctx = "live"
    /\ closed = {}
    /\ single = SingleIdle

\* one text of each length up to MaxTextTokens tokens, the empty text
\* included; the last token of a text differs from the others
TextsByLength == {0} \cup {LastTextOf(n) - 1 : n \in 1..MaxTextTokens}

\* Set on the cache New returned
NextNewCache ==
    /\ kind # "nil"
    /\ \E key \in {ZeroKey, 1}, inputText \in TextsByLength :
         Set(key, inputText, NumVals)

SpecNewCache == InitNewCache /\ [][NextNewCache]_vars

\* the one provider call of a Set that does not chunk
Unchunked(inputText) == <<[op |-> "EmbedText", texts |-> <<inputText>>]>>

\* the sum of component i over the embeddings of the first n texts
RECURSIVE ComponentSum(_, _, _)
ComponentSum(texts, i, n) ==
    IF n = 0 THEN 0
    ELSE ComponentSum(texts, i, n - 1) + EmbedText(texts[n])[i]

\* C33: the embedding stored for a chunked input is the component-wise
\* arithmetic mean of the embeddings of its chunks: each component, times
\* the number of chunks, is the sum of that component over the chunks.
C33_AggregateIsMean ==
    [][\A inputText \in TextsByLength :
         (/\ ret'.op = "Set"
          /\ ret'.key = 1
          /\ ret'.out = "nil"
          /\ NeedsChunks(inputText)
          /\ Set(1, inputText, NumVals)) =>
            LET texts == chunkTexts(inputText)
                stored == GetEmbeddingResult(1)'
            IN  /\ stored.found
                /\ Len(stored.embedding) = Len(EmbedText(texts[1]))
                /\ \A i \in DOMAIN stored.embedding :
                     stored.embedding[i] * Len(texts) =
                        ComponentSum(texts, i, Len(texts))
      ]_vars

\* a text cut into MaxTextTokens chunks with pairwise different embeddings
\* was stored
C33_Witness ==
    LET inputText == LastTextOf(MaxTextTokens) - 1
    IN  /\ ret = [op |-> "Set", key |-> 1, out |-> "nil"]
        /\ enableChunking
        /\ config.ChunkSize = 1
        /\ embedded = ProviderCalls(inputText)
        /\ Len(chunkTexts(inputText)) = MaxTextTokens
        /\ GetEmbeddingResult(1).found
        /\ GetEmbeddingResult(1).embedding # EmbedText(inputText)

\* C35: a Set during which the provider fails (EmbedText on the whole text,
\* EmbedBatch, or EmbedText on a chunk) returns an error and leaves every
\* field of the backend as it was.
C35_EmbeddingFailureNoWrite ==
    [][\A inputText \in TextsByLength :
         \A failAt \in 1..MaxTextTokens :
           (/\ ret'.op = "Set"
            /\ ret'.key = 1
            /\ failAt \in FailPoints(1, inputText)
            /\ embedded' = SubSeq(ProviderCalls(inputText), 1, failAt)
            /\ ret'.out # "nil") =>
              /\ UNCHANGED bvars
              /\ \A key \in Keys :
                   /\ GetResult(key)' = GetResult(key)
                   /\ GetEmbeddingResult(key)' = GetEmbeddingResult(key)
      ]_vars

\* the provider failed on the second chunk of the fallback loop while the
\* backend held an entry
C35_Witness ==
    /\ ret = [op |-> "Set", key |-> 1, out |-> "provider error"]
    /\ ~batchProvider
    /\ Len(embedded) = 2
    /\ embedded[2].op = "EmbedText"
    /\ GetResult(1).found

\* C36: with chunking enabled and a chunker present, Set embeds chunk-wise
\* exactly when CountTokens(inputText) > GetMaxTokens(); in every other case
\* it calls EmbedText once, with the original text, and never EmbedBatch.
C36_ChunkingDecision ==
    [][\A inputText \in TextsByLength :
         (/\ ret'.op = "Set"
          /\ ret'.key = 1
          /\ Set(1, inputText, NumVals)) =>
            IF enableChunking /\ CountTokens(inputText) > GetMaxTokens
            THEN LET texts == chunkTexts(inputText)
                 IN  /\ Len(texts) > 1
                     /\ embedded' # <<>>
                     /\ \A j \in DOMAIN embedded' :
                          IF batchProvider
                          THEN embedded'[j] = [op |-> "EmbedBatch",
                                               texts |-> texts]
                          ELSE embedded'[j] = [op |-> "EmbedText",
                                               texts |-> <<texts[j]>>]
            ELSE embedded' = Unchunked(inputText)
      ]_vars

\* a text of exactly GetMaxTokens() tokens, longer than a chunk, was embedded
\* whole by a cache that chunks
C36_Witness ==
    /\ ret = [op |-> "Set", key |-> 1, out |-> "nil"]
    /\ enableChunking
    /\ config.ChunkSize < config.MaxTokens
    /\ \E inputText \in TextsByLength :
         /\ CountTokens(inputText) = GetMaxTokens
         /\ embedded = Unchunked(inputText)

Occurrences(key) == Cardinality({i \in DOMAIN queue : queue[i] = key})

\* C38: in every state of the FIFO backend the queue lists each key of the
\* entries map exactly once and no other key, and the entries map and the
\* index have the same keys; so when a Set evicts, the queue is not empty
\* and the key it removes, the head of the queue, is a live key.
C38_FIFOStructure ==
    /\ [](kind = "fifo" =>
            /\ \A key \in DOMAIN entries : Occurrences(key) = 1
            /\ \A i \in DOMAIN queue : queue[i] \in DOMAIN entries
            /\ DOMAIN index = DOMAIN entries)
    /\ [][\A key \in Keys, entry \in Entry :
            (/\ kind = "fifo"
             /\ key \notin DOMAIN entries
             /\ Cardinality(DOMAIN entries) >= capacity
             /\ capacity > 0
             /\ ret'.op = "Set"
             /\ ret'.key = key
             /\ FIFOBackendSet(key, entry)) =>
               /\ queue # <<>>
               /\ ContainsResult(queue[1])
               /\ Removed = {queue[1]}
         ]_vars

\* a Set evicted the head of the queue of a full FIFO backend of capacity
\* MaxCapacity
C38_Witness ==
    /\ kind = "fifo"
    /\ capacity = MaxCapacity
    /\ ret.op = "Set"
    /\ evicted # {}
    /\ Len(queue) = capacity
    /\ Len(inserted) = capacity
    /\ \A key \in DOMAIN entries : Occurrences(key) = 1

\* ============================================== search as a frame condition
\* a step of Lookup or TopMatches that calls the backend
SearchStep ==
    \/ LookupKeys
    \/ LookupGetEmbedding
    \/ LookupGetEmbeddingCleanup
    \/ LookupGet
    \/ TopMatchesKeys
    \/ TopMatchesGetEmbedding
    \/ TopMatchesGetEmbeddingCleanup
    \/ TopMatchesGet

\* the key the running search is at
SearchKey == scan.keys[scan.i]

\* C39: a step of Lookup or TopMatches adds, removes and replaces no entry:
\* the keys, values and embeddings of the backend are the same after the step,
\* every key answers Get and GetEmbedding as before, and the step changes at
\* most the recency order of the LRU backend, the frequency of the key it
\* fetched (by one) and the index entries of keys the LRU cache does not hold.
C39_SearchFrame ==
    [][(scan'.pc # scan.pc \/ scan'.i # scan.i) /\ SearchStep =>
         /\ entries' = entries
         /\ queue' = queue
         /\ kind' = kind /\ capacity' = capacity
         /\ DOMAIN index' \subseteq DOMAIN index
         /\ \A key \in DOMAIN index' : index'[key] = index[key]
         /\ \A key \in DOMAIN index \ DOMAIN index' :
              kind = "lru" /\ ~lruContains(key)
         /\ \A key \in Keys : GetEmbeddingResult(key)' = GetEmbeddingResult(key)
         /\ \A key \in Keys : GetResult(key)' = GetResult(key)
         /\ {evictList'[j] : j \in DOMAIN evictList'} =
              {evictList[j] : j \in DOMAIN evictList}
         /\ \A key \in DOMAIN Frequency' \cap DOMAIN Frequency :
              \/ Frequency'[key] = Frequency[key]
              \/ /\ scan.pc \in {"get", "topget"} /\ key = SearchKey
                 /\ Frequency'[key] = Frequency[key] + 1]_vars

\* ================================================ the single-struct cache
\* NewSemanticCache: an LRU cache built by lru.NewWithEvict whose eviction
\* callback locks sc.mu, with the embedding index beside it.  single.mu is 0
\* when sc.mu is free and p when goroutine p holds its write lock; readers
\* hold the read lock for one step only.

\* the variables of the layered cache
ovars == <<shouldErr, batchProvider, enableChunking, config, embedded, batch,
          async, ctx, closed>>

\* goroutine p moves to pc with these local variables
SingleWith(p, pc, op, key, entry, victim) ==
    [single EXCEPT !.pc[p] = pc, !.op[p] = op, !.key[p] = key,
                   !.entry[p] = entry, !.victim[p] = victim]

\* the call of p returns: the deferred sc.mu.Unlock() has run
SingleReturn(p, mu) ==
    [SingleWith(p, "idle", "none", ZeroKey, NotFound, ZeroKey)
        EXCEPT !.mu = mu]

\* Set up to sc.mu.Lock(): the zero key is refused, the text is embedded
SingleSet(p, key, inputText, value) ==
    /\ single.pc[p] = "idle"
    /\ IF key = ZeroKey
       THEN /\ Returned("Set", key, "key cannot be zero value")
            /\ UNCHANGED single
       ELSE /\ single' = SingleWith(p, "lock", "Set", key,
                                    [Embedding |-> EmbedText(inputText),
                                     Value |-> value], ZeroKey)
            /\ UNCHANGED ret
    /\ UNCHANGED <<bvars, cleanup, scan, hvars, ovars>>

\* Delete up to sc.mu.Lock()
SingleDelete(p, key) ==
    /\ single.pc[p] = "idle"
    /\ single' = SingleWith(p, "lock", "Delete", key, NotFound, ZeroKey)
    /\ UNCHANGED <<bvars, cleanup, ret, scan, hvars, ovars>>

\* mu.Lock() returns once no goroutine holds the mutex: in Set and Delete,
\* and in the eviction callback, whose body (delete(index, key)) and whose
\* caller's remaining statements follow
SingleLock(p) ==
    /\ single.pc[p] \in {"lock", "callback"}
    /\ single.mu = 0
    /\ IF single.pc[p] = "lock"
       THEN /\ single' = [single EXCEPT !.mu = p, !.pc[p] = "locked"]
            /\ UNCHANGED <<index, ret>>
       ELSE /\ index' = IF single.op[p] = "Set"
                        THEN MapPut(MapDelete(index, single.victim[p]),
                                    single.key[p], single.entry[p].Embedding)
                        ELSE MapDelete(index, single.victim[p])
            /\ single' = SingleReturn(p, 0)
            /\ Returned(single.op[p], single.key[p], "nil")
    /\ UNCHANGED <<kind, capacity, entries, queue, evictList, Frequency,
                   cleanup, scan, hvars, ovars>>

\* Set under the lock: sc.cache.Add(key, entry), which calls the eviction
\* callback when it removed the oldest entry; otherwise
\* sc.index[key] = embedding and return
SingleAdd(p) ==
    /\ single.pc[p] = "locked"
    /\ single.op[p] = "Set"
    /\ LET key == single.key[p]
           res == lruAdd(key, single.entry[p])
       IN  /\ entries' = res.entries
           /\ evictList' = res.evictList
           /\ evicted' = Removed
           /\ IF Removed # {}
              THEN /\ single' = [single EXCEPT
                                   !.pc[p] = "callback",
                                   !.victim[p] = evictList[Len(evictList)]]
                   /\ UNCHANGED <<index, ret>>
              ELSE /\ index' = MapPut(index, key, single.entry[p].Embedding)
                   /\ single' = SingleReturn(p, 0)
                   /\ Returned("Set", key, "nil")
    /\ UNCHANGED <<kind, capacity, queue, Frequency, cleanup, scan, used,
                   inserted, ovars>>

\* Delete under the lock: sc.cache.Remove(key), which calls the eviction
\* callback when the key was present
SingleRemove(p) ==
    /\ single.pc[p] = "locked"
    /\ single.op[p] = "Delete"
    /\ LET key == single.key[p]
       IN  IF key \in DOMAIN entries
           THEN /\ entries' = MapDelete(entries, key)
                /\ evictList' = Without(evictList, key)
                /\ single' = [single EXCEPT !.pc[p] = "callback",
                                            !.victim[p] = key]
                /\ UNCHANGED ret
           ELSE /\ single' = SingleReturn(p, 0)
                /\ Returned("Delete", key, "nil")
                /\ UNCHANGED <<entries, evictList>>
    /\ UNCHANGED <<kind, capacity, index, queue, Frequency, cleanup, scan,
                   hvars, ovars>>

\* Get: sc.cache.Get(key) under the read lock
SingleGet(p, key) ==
    /\ single.pc[p] = "idle"
    /\ single.mu = 0
    /\ evictList' = lruGet(key)
    /\ Returned("Get", key,
                IF key \in DOMAIN entries
                THEN [found |-> TRUE, Value |-> entries[key].Value]
                ELSE NotFound)
    /\ UNCHANGED <<kind, capacity, entries, index, queue, Frequency, cleanup,
                   scan, hvars, ovars, single>>

\* Flush: a new cache and a new index under the write lock
SingleFlush(p) ==
    /\ single.pc[p] = "idle"
    /\ single.mu = 0
    /\ entries' = EmptyMap
    /\ evictList' = <<>>
    /\ index' = EmptyMap
    /\ Returned("Flush", ZeroKey, "nil")
    /\ UNCHANGED <<kind, capacity, queue, Frequency, cleanup, scan, hvars,
                   ovars, single>>

NextSingle ==
    \/ \E p \in Procs, key \in {ZeroKey} \cup Keys, inputText \in Texts :
         SingleSet(p, key, inputText, NumVals)
    \/ \E p \in Procs, key \in Keys : SingleDelete(p, key)
    \/ \E p \in Procs : SingleLock(p)
    \/ \E p \in Procs : SingleAdd(p)
    \/ \E p \in Procs : SingleRemove(p)
    \/ \E p \in Procs, key \in Keys : SingleGet(p, key)
    \/ \E p \in Procs : SingleFlush(p)

\* NewSemanticCache(capacity, provider, comparator) has returned a cache
InitSingle ==
    /\ kind = "single"
    /\ capacity \in 1..MaxCapacity
    /\ InitBackend
    /\ InitSemanticCache

SpecSingle == InitSingle /\ [][NextSingle]_vars

\* a goroutine that is inside a call goes on when it can, and one that waits
\* for sc.mu gets it if the mutex is free again and again
SpecSingleFair ==
    /\ SpecSingle
    /\ \A p \in Procs :
         /\ SF_vars(SingleLock(p))
         /\ WF_vars(SingleAdd(p))
         /\ WF_vars(SingleRemove(p))

\* C40: on the single-struct cache, a Set whose Add evicted an entry and a
\* Delete whose Remove found its key have their eviction callback running,
\* and each such call returns in the end.
C40_EvictingCallReturns ==
    \A p \in Procs : (single.pc[p] = "callback") ~> (single.pc[p] = "idle")

====
